---- MODULE Spec2Model ----
(***************************************************************************)
(* kube-fledged controller (cmd/controller/app/controller.go): the         *)
(* ImageCache event handlers, the rate limited work queue, the workers     *)
(* running syncHandler, the refresh timer, preflight, and the image work   *)
(* manager that answers each reconciliation pass with a StatusUpdate key.  *)
(***************************************************************************)
EXTENDS Naturals, Sequences, FiniteSets, TLC

(***************************************************************************)
(* Bounds of the model.                                                    *)
(***************************************************************************)
\* operator edits (spec changes, annotations) applied to the cluster
MaxEdits == 1
\* cluster calls that fail
MaxFail == 1
\* firings of the refresh timer
MaxTicks == 1
\* worker goroutines draining the work queue (threadiness)
Threadiness == 2
\* readings the clock can take
MaxClock == 2
\* node events the node informer delivers
MaxNodeEvents == 1
\* results in the batch of a StatusUpdate key of the syncHandler harness
MaxBatch == 2
\* cacheSpec entries of an ImageCache of the pass harness
MaxEntries == 2

\* the node events of the latch harness
LatchEvents == 3

(***************************************************************************)
(* Data model.                                                             *)
(***************************************************************************)
\* a nil pointer
Nil == [nil |-> TRUE]

\* WorkType values (pkg/images)
ImageCacheCreate == "create"
ImageCacheUpdate == "update"
ImageCacheDelete == "delete"
ImageCacheStatusUpdate == "statusupdate"
ImageCacheRefresh == "refresh"
ImageCachePurge == "purge"

imageCachePurgeAnnotationKey == "kubefledged.io/purge-imagecache"
imageCacheRefreshAnnotationKey == "kubefledged.io/refresh-imagecache"
AnnotationKeys == {imageCachePurgeAnnotationKey, imageCacheRefreshAnnotationKey}

\* ImageCacheActionStatus values
ImageCacheActionStatusProcessing == "Processing"
ImageCacheActionStatusSucceeded == "Succeeded"
ImageCacheActionStatusFailed == "Failed"
ImageCacheActionStatusAborted == "Aborted"
ImageCacheActioneNoImagesPulledOrDeleted == "NoImagesPulledOrDeleted"

\* status reasons
ImageCacheReasonImageCacheCreate == "ImageCacheCreate"
ImageCacheReasonImageCacheUpdate == "ImageCacheUpdate"
ImageCacheReasonImageCacheRefresh == "ImageCacheRefresh"
ImageCacheReasonImageCachePurge == "ImageCachePurge"
ImageCacheReasonCacheSpecValidationFailed == "CacheSpecValidationFailed"
ImageCacheReasonImagePullAborted == "ImagePullAborted"
ImageCacheReasonOldImageCacheNotFound == "OldImageCacheNotFound"

\* status messages
ImageCacheMessagePullingImages == "pulling images"
ImageCacheMessageUpdatingCache == "updating cache"
ImageCacheMessageRefreshingCache == "refreshing cache"
ImageCacheMessagePurgeCache == "purging cache"
ImageCacheMessageImagePullAborted == "image pull aborted"
ImageCacheMessageOldImageCacheNotFound == "old image cache not found"
ImageCacheMessageNoImagesPulledOrDeleted == "no images pulled or deleted"
ImageCacheMessageImagesPulledSuccessfully == "images pulled successfully"
ImageCacheMessageImagesDeletedSuccessfully == "images deleted successfully"
ImageCacheMessageImagePullFailedForSomeImages == "image pull failed for some images"
ImageCacheMessageImageDeleteFailedForSomeImages == "image delete failed for some images"

\* ImageWorkResult status values
ImageWorkResultStatusSucceeded == "succeeded"
ImageWorkResultStatusFailed == "failed"
ImageWorkResultStatusAlreadyPulled == "alreadypulled"
ImageWorkResultStatusUnknown == "unknown"

\* The ImageCache names of the cluster.
ImageCacheNames == {"foo"}

\* The nodes of the cluster, by their kubernetes.io/hostname label.
NodeNames == {"bar"}

\* spec.cacheSpec values an operator may apply: one entry, all nodes.
SpecFoo == << [images |-> << [name |-> "foo", forceFullCache |-> TRUE] >>,
               nodeSelector |-> {}] >>
SpecBar == << [images |-> << [name |-> "bar", forceFullCache |-> FALSE] >>,
               nodeSelector |-> {}] >>
SpecValues == {SpecFoo, SpecBar}

\* the nodes the node lister returns, in its order
NodeList == << [name |-> "bar", labels |-> {}] >>

\* v1alpha3.ImageCacheStatus{}: every field at its zero value.
EmptyStatus ==
  [status |-> "", reason |-> "", message |-> "", failures |-> <<>>,
   startTime |-> 0, completionTime |-> 0]

NewImageCache(name, spec, annotations, status) ==
  [name |-> name, spec |-> spec, annotations |-> annotations, status |-> status]

(***************************************************************************)
(* The rate limited work queue (client-go workqueue).  A key that is added *)
(* becomes dirty unless it already is; Get hands out a dirty key that no   *)
(* worker is processing; Done ends the processing, after which a key that  *)
(* became dirty again can be handed out again.  The delay the rate limiter *)
(* puts before each Add decides the order in which keys become available:  *)
(* any dirty key that is not being processed may be the next one Get       *)
(* returns.  Keys are compared as Go compares the WorkQueueKey struct.     *)
(***************************************************************************)
NewWorkQueue ==
  [dirty |-> {}, processing |-> {}, requeues |-> {}, shuttingDown |-> FALSE]

WorkQueueKey(workType, objKey, status, oldImageCache) ==
  [workType |-> workType, objKey |-> objKey, status |-> status,
   oldImageCache |-> oldImageCache]

\* Add puts the item on the queue at once; AddRateLimited asks the rate
\* limiter for the delay first, which then holds a count for the item
\* (requeues: the items with a count) until Forget
Add(wq, item) ==
  IF wq.shuttingDown THEN wq ELSE [wq EXCEPT !.dirty = @ \cup {item}]

AddRateLimited(wq, key) ==
  Add([wq EXCEPT !.requeues = @ \cup {key}], key)

\* after ShutDown the queue takes no new item and hands out what it holds
ShutDown(wq) == [wq EXCEPT !.shuttingDown = TRUE]

Forget(wq, item) == [wq EXCEPT !.requeues = @ \ {item}]

\* the keys Get can return
Available(wq) == wq.dirty \ wq.processing

Get(wq, key) ==
  [wq EXCEPT !.dirty = @ \ {key}, !.processing = @ \cup {key}]

Done(wq, key) == [wq EXCEPT !.processing = @ \ {key}]

\* every key the queue holds
KeysOf(wq) == wq.dirty \cup wq.processing

(***************************************************************************)
(* enqueueImageCache: the admission rules of the ImageCache event          *)
(* handlers.  The result is the value returned and the key handed to       *)
(* AddRateLimited (Nil when none is).                                      *)
(***************************************************************************)
NewlyPresent(annotationKey, old, new) ==
  annotationKey \in new.annotations /\ annotationKey \notin old.annotations

\* (variant: the key never carries the old object)
AdmitWithoutOld(workType, obj, old) ==
  [ret |-> TRUE, key |-> WorkQueueKey(workType, obj.name, Nil, Nil)]

Admit(workType, obj, old) ==
  [ret |-> TRUE,
   key |-> WorkQueueKey(workType, obj.name, Nil,
                        IF workType = ImageCacheUpdate THEN old ELSE Nil)]

Drop == [ret |-> FALSE, key |-> Nil]

\* (variant: only status.status is looked at)
CreateRuleStatusFieldOnly(new) ==
  IF new.status.status # "" THEN Drop ELSE Admit(ImageCacheCreate, new, Nil)

CreateRule(new) ==
  IF new.status # EmptyStatus THEN Drop ELSE Admit(ImageCacheCreate, new, Nil)

\* (variant: a newly present trigger annotation overrides the rule)
ProcessingRuleUnlessAnnotated(old, new) ==
  /\ old.status.status = ImageCacheActionStatusProcessing /\ new.spec # old.spec
  /\ ~NewlyPresent(imageCachePurgeAnnotationKey, old, new)
  /\ ~NewlyPresent(imageCacheRefreshAnnotationKey, old, new)

ProcessingRule(old, new) ==
  old.status.status = ImageCacheActionStatusProcessing /\ new.spec # old.spec

\* (variant: the refresh annotation is looked at before the purge annotation)
UpdateRuleRefreshFirst(old, new) ==
  IF ProcessingRule(old, new) THEN Drop
  ELSE IF NewlyPresent(imageCacheRefreshAnnotationKey, old, new)
    THEN Admit(ImageCacheRefresh, new, old)
  ELSE IF NewlyPresent(imageCachePurgeAnnotationKey, old, new)
    THEN Admit(ImageCachePurge, new, old)
  ELSE IF new.spec = old.spec THEN Drop
  ELSE Admit(ImageCacheUpdate, new, old)

\* (variant: an unchanged spec is not dropped)
UpdateRuleNoSpecCheck(old, new) ==
  IF ProcessingRule(old, new) THEN Drop
  ELSE IF NewlyPresent(imageCachePurgeAnnotationKey, old, new)
    THEN Admit(ImageCachePurge, new, old)
  ELSE IF NewlyPresent(imageCacheRefreshAnnotationKey, old, new)
    THEN Admit(ImageCacheRefresh, new, old)
  ELSE Admit(ImageCacheUpdate, new, old)

UpdateRule(old, new) ==
  IF ProcessingRule(old, new) THEN Drop
  ELSE IF NewlyPresent(imageCachePurgeAnnotationKey, old, new)
    THEN Admit(ImageCachePurge, new, old)
  ELSE IF NewlyPresent(imageCacheRefreshAnnotationKey, old, new)
    THEN Admit(ImageCacheRefresh, new, old)
  ELSE IF new.spec = old.spec THEN Drop
  ELSE Admit(ImageCacheUpdate, new, old)

\* (variant: a Delete event falls through to the enqueue of the old object)
enqueueImageCacheDeleteFallsThrough(workType, old, new) ==
  CASE workType = ImageCacheCreate -> CreateRule(new)
    [] workType = ImageCacheUpdate -> UpdateRule(old, new)
    [] workType = ImageCacheDelete -> Admit(ImageCacheDelete, old, old)
    [] workType = ImageCacheRefresh -> Admit(ImageCacheRefresh, old, old)

enqueueImageCache(workType, old, new) ==
  CASE workType = ImageCacheCreate -> CreateRule(new)
    [] workType = ImageCacheUpdate -> UpdateRule(old, new)
    [] workType = ImageCacheDelete -> Drop
    [] workType = ImageCacheRefresh -> Admit(ImageCacheRefresh, old, old)

Enqueued(wq, res) == IF res.ret THEN AddRateLimited(wq, res.key) ELSE wq

(***************************************************************************)
(* State.                                                                  *)
(***************************************************************************)
VARIABLES
  api,             \* the ImageCaches persisted in the cluster, by name
  lister,          \* the informer's cache of them (Nil: not yet listed)
  watch,           \* ImageCache events the informer has not delivered yet
  workqueue,       \* c.workqueue
  imageworkqueue,  \* c.imageworkqueue
  worker,          \* each worker's position in processNextWorkItem
  manager,         \* the image work manager's state for the pass it collects
  budget,          \* what is left of MaxEdits, MaxFail, MaxTicks, MaxNodeEvents
  clock,           \* the reading metav1.Now() returns
  phase,           \* "preflight", "running", "aborted", "crashed", or "harness"
  call,            \* the call of enqueueImageCache the handler harness made
  owed,            \* names with a pass key enqueued and neither terminal write nor retry since
  dropped,         \* names with a spec change dropped by the Processing rule, no pass started since
  jobs,            \* the image manager's jobs left in the cluster by a previous run
  nodesCache,      \* c.nodesCache: the nodes seen Ready
  fanout,          \* snapshots of the lister waiting for defaultNodeLatency to elapse
  nodesLister,     \* the node informer's cache, in the order List returns it
  recorder         \* the events the last syncHandler call handed to c.recorder

vars == << api, lister, watch, workqueue, imageworkqueue, worker, manager,
           budget, clock, phase, call, owed, dropped, jobs, nodesCache, fanout,
           nodesLister, recorder >>

NoCall == [workType |-> "none", old |-> Nil, new |-> Nil, by |-> "none",
           ret |-> FALSE, key |-> Nil]

\* One call of enqueueImageCache followed by its effect on the work queue.
Call(workType, old, new, by) ==
  LET res == enqueueImageCache(workType, old, new) IN
    [workType |-> workType, old |-> old, new |-> new, by |-> by,
     ret |-> res.ret, key |-> res.key]

IsPassKey(key) ==
  key # Nil /\ key.workType \in {ImageCacheCreate, ImageCacheUpdate,
                                  ImageCacheRefresh, ImageCachePurge}

\* names for which the calls cs (a sequence of call records) dropped a spec change
DroppedBy(cs) ==
  {cs[i].new.name : i \in {j \in 1..Len(cs) :
      cs[j].workType = ImageCacheUpdate /\ ProcessingRule(cs[j].old, cs[j].new)}}

OwedBy(cs) ==
  {cs[i].key.objKey : i \in {j \in 1..Len(cs) : IsPassKey(cs[j].key)}}

RECURSIVE EnqueueAll(_, _)
EnqueueAll(wq, cs) ==
  IF cs = <<>> THEN wq
  ELSE EnqueueAll(Enqueued(wq, Head(cs)), Tail(cs))

(***************************************************************************)
(* The handler harness: one call of enqueueImageCache on a fresh           *)
(* controller, with arguments drawn from the objects below                 *)
(* (TestEnqueueImageCache).                                                *)
(***************************************************************************)
StatusOf(status, reason, startTime, completionTime) ==
  [status |-> status, reason |-> reason, message |-> "", failures |-> <<>>,
   startTime |-> startTime, completionTime |-> completionTime]

HarnessStatuses ==
  { EmptyStatus,
    StatusOf(ImageCacheActionStatusSucceeded, "", 0, 0),
    StatusOf("", "", 1, 0),
    StatusOf(ImageCacheActionStatusProcessing, ImageCacheReasonImageCacheCreate, 1, 0),
    StatusOf(ImageCacheActionStatusSucceeded, ImageCacheReasonImageCachePurge, 1, 2),
    StatusOf(ImageCacheActionStatusFailed, ImageCacheReasonImageCacheRefresh, 1, 2) }

HarnessObjects ==
  { NewImageCache(n, s, a, st) :
      n \in ImageCacheNames, s \in SpecValues, a \in SUBSET AnnotationKeys,
      st \in HarnessStatuses }

HarnessInit ==
  /\ api = [n \in ImageCacheNames |-> NewImageCache(n, SpecFoo, {}, EmptyStatus)]
  /\ lister = [n \in ImageCacheNames |-> Nil]
  /\ watch = <<>>
  /\ workqueue = NewWorkQueue
  /\ imageworkqueue = <<>>
  /\ worker = [w \in 1..Threadiness |-> [pc |-> "idle", key |-> Nil]]
  /\ manager = [results |-> <<>>, passes |-> 0]
  /\ budget = [edits |-> 0, fails |-> 0, ticks |-> 0, nodes |-> 0]
  /\ clock = 1
  /\ phase = "harness"
  /\ call = NoCall
  /\ owed = {}
  /\ dropped = {}
  /\ jobs = <<>>
  /\ nodesCache = {}
  /\ fanout = <<>>
  /\ nodesLister = NodeList
  /\ recorder = <<>>

HarnessCall(workType, old, new) ==
  /\ phase = "harness"
  /\ call = NoCall
  /\ call' = Call(workType, old, new, "test")
  /\ workqueue' = Enqueued(workqueue, call')
  /\ UNCHANGED << api, lister, watch, imageworkqueue, worker, manager, budget,
                  clock, phase, owed, dropped,
                  jobs, nodesCache, fanout, nodesLister, recorder >>

AddFunc == \E new \in HarnessObjects : HarnessCall(ImageCacheCreate, Nil, new)

UpdateFunc ==
  \E old \in HarnessObjects, new \in HarnessObjects :
    old.name = new.name /\ HarnessCall(ImageCacheUpdate, old, new)

DeleteFunc == \E obj \in HarnessObjects : HarnessCall(ImageCacheDelete, obj, Nil)

RefreshFunc == \E obj \in HarnessObjects : HarnessCall(ImageCacheRefresh, obj, Nil)

HarnessNext == AddFunc \/ UpdateFunc \/ DeleteFunc \/ RefreshFunc

SpecEnq == HarnessInit /\ [][HarnessNext]_vars

(***************************************************************************)
(* updateImageCacheStatus and removeAnnotation: the object handed to       *)
(* Update, built on the copy just fetched from the cluster.                *)
(***************************************************************************)
\* (variant: completionTime is stamped on every status, Processing included)
updateImageCacheStatusAlwaysCompletes(imageCacheCopy, status, now) ==
  [imageCacheCopy EXCEPT !.status = [status EXCEPT !.completionTime = now]]

updateImageCacheStatus(imageCacheCopy, status, now) ==
  [imageCacheCopy EXCEPT !.status =
     IF status.status # ImageCacheActionStatusProcessing
     THEN [status EXCEPT !.completionTime = now]
     ELSE status]

removeAnnotation(imageCache, annotationKey) ==
  [imageCache EXCEPT !.annotations = @ \ {annotationKey}]

(***************************************************************************)
(* syncHandler, Create | Update | Refresh | Purge: the Processing status   *)
(* and the requests of the pass.                                           *)
(***************************************************************************)
ReasonOf(workType) ==
  CASE workType = ImageCacheCreate -> ImageCacheReasonImageCacheCreate
    [] workType = ImageCacheUpdate -> ImageCacheReasonImageCacheUpdate
    [] workType = ImageCacheRefresh -> ImageCacheReasonImageCacheRefresh
    [] workType = ImageCachePurge -> ImageCacheReasonImageCachePurge

MessageOf(workType) ==
  CASE workType = ImageCacheCreate -> ImageCacheMessagePullingImages
    [] workType = ImageCacheUpdate -> ImageCacheMessageUpdatingCache
    [] workType = ImageCacheRefresh -> ImageCacheMessageRefreshingCache
    [] workType = ImageCachePurge -> ImageCacheMessagePurgeCache

ProcessingStatus(workType, now) ==
  [status |-> ImageCacheActionStatusProcessing, reason |-> ReasonOf(workType),
   message |-> MessageOf(workType), failures |-> <<>>,
   startTime |-> now, completionTime |-> 0]

\* (variant: an Update key without old object starts a pass like any other)
OldImageCacheIgnored(now) == ProcessingStatus(ImageCacheUpdate, now)

OldImageCacheNotFoundStatus(now) ==
  [status |-> ImageCacheActionStatusFailed,
   reason |-> ImageCacheReasonOldImageCacheNotFound,
   message |-> ImageCacheMessageOldImageCacheNotFound, failures |-> <<>>,
   startTime |-> now, completionTime |-> 0]

RECURSIVE Flatten(_)
Flatten(seqs) == IF seqs = <<>> THEN <<>> ELSE Head(seqs) \o Flatten(Tail(seqs))

RECURSIVE Filter(_, _)
Filter(seq, keep) ==
  IF seq = <<>> THEN <<>>
  ELSE (IF Head(seq) \in keep THEN <<Head(seq)>> ELSE <<>>) \o Filter(Tail(seq), keep)

\* (variant: the selector is ignored)
ListNodesEverything(nodeSelector) == nodesLister

\* nodesLister.List: every node for an empty selector, else those carrying its labels
ListNodes(nodeSelector) ==
  Filter(nodesLister, {n \in {nodesLister[j] : j \in 1..Len(nodesLister)} :
                      nodeSelector \subseteq n.labels})

ImageWorkRequest(image, node, workType, name) ==
  [image |-> image.name, forceFullCache |-> image.forceFullCache, node |-> node,
   workType |-> workType, imagecache |-> name]

\* the request that ends a pass: no image, no node
Sentinel(workType, name) ==
  [image |-> "", forceFullCache |-> FALSE, node |-> Nil,
   workType |-> workType, imagecache |-> name]

IsSentinel(req) == req.image = "" /\ req.node = Nil

\* (variant: an old image is matched by a new image of the same name)
UnmatchedByName(wqKey, k, entry) ==
  LET oldImages == wqKey.oldImageCache.spec[k].images
      newNames == {entry.images[j].name : j \in 1..Len(entry.images)} IN
    Filter(oldImages, {oldImages[j] : j \in 1..Len(oldImages)} \ 
                        {i \in {oldImages[j] : j \in 1..Len(oldImages)} :
                           i.name \in newNames})

\* the images of the old entry k that no image of the new entry equals
Unmatched(wqKey, k, entry) ==
  LET oldImages == wqKey.oldImageCache.spec[k].images
      newImages == {entry.images[j] : j \in 1..Len(entry.images)} IN
    Filter(oldImages, {oldImages[j] : j \in 1..Len(oldImages)} \ newImages)

RequestsForNode(wqKey, k, entry, node) ==
  [j \in 1..Len(entry.images) |->
     ImageWorkRequest(entry.images[j], node, wqKey.workType, wqKey.objKey)]
  \o (IF wqKey.workType = ImageCacheUpdate
      THEN LET gone == Unmatched(wqKey, k, entry) IN
             [j \in 1..Len(gone) |->
                ImageWorkRequest(gone[j], node, ImageCachePurge, wqKey.objKey)]
      ELSE <<>>)

RequestsForEntry(wqKey, k, entry) ==
  LET nodes == ListNodes(entry.nodeSelector) IN
    Flatten([j \in 1..Len(nodes) |-> RequestsForNode(wqKey, k, entry, nodes[j])])

\* everything one pass adds to the image work queue, the sentinel last
Requests(wqKey, cacheSpec) ==
  Flatten([k \in 1..Len(cacheSpec) |-> RequestsForEntry(wqKey, k, cacheSpec[k])])
  \o << Sentinel(wqKey.workType, wqKey.objKey) >>

(***************************************************************************)
(* c.imageworkqueue.AddRateLimited.  The queue's rate limiter delays each  *)
(* add by a back-off that doubles with every earlier add of an equal item  *)
(* (workqueue.DefaultControllerRateLimiter: 5ms, 10ms, ...); the adds of   *)
(* one pass are made within far less than that, so they reach the queue in *)
(* the order of their back-off and, within one back-off, of the calls.     *)
(***************************************************************************)
\* (variant: the later an item is added, the sooner it is ready)
WhenLastFirst(requests, j) == Len(requests) - j

\* the number of earlier adds of the item added by call j
When(requests, j) == Cardinality({i \in 1..(j - 1) : requests[i] = requests[j]})

\* the adds with back-off b, from call j on, in call order
RECURSIVE WithBackoff(_, _, _)
WithBackoff(requests, b, j) ==
  IF j > Len(requests) THEN <<>>
  ELSE (IF When(requests, j) = b THEN << requests[j] >> ELSE <<>>)
       \o WithBackoff(requests, b, j + 1)

\* the adds of one pass in the order in which they reach the queue
Arrival(requests) ==
  Flatten([b \in 1..Len(requests) |-> WithBackoff(requests, b - 1, 1)])

\* (variant: an Update pass works on the spec carried by its key)
CacheSpecOfKey(wqKey, imageCache) ==
  IF wqKey.workType = ImageCacheUpdate /\ wqKey.oldImageCache # Nil
  THEN wqKey.oldImageCache.spec ELSE imageCache.spec

\* cacheSpec := imageCache.Spec.CacheSpec, imageCache being the lister's object
CacheSpecOf(wqKey, imageCache) == imageCache.spec

(***************************************************************************)
(* syncHandler, StatusUpdate: the aggregate of a batch of results, visited *)
(* in the order the Go map iteration yields them.                          *)
(***************************************************************************)
IsSuccess(v) ==
  v.status \in {ImageWorkResultStatusSucceeded, ImageWorkResultStatusAlreadyPulled}

IsFailure(v) ==
  v.status \in {ImageWorkResultStatusFailed, ImageWorkResultStatusUnknown}

NodeReasonMessage(v) ==
  [node |-> v.request.node.name, reason |-> v.reason, message |-> v.message]

\* (variant: a failure replaces the entries filed under its image)
AddFailureOverwrites(failures, v) ==
  LET image == v.request.image IN
    [i \in (DOMAIN failures) \cup {image} |->
       IF i = image THEN << NodeReasonMessage(v) >> ELSE failures[i]]

AddFailure(failures, v) ==
  LET image == v.request.image IN
    [i \in (DOMAIN failures) \cup {image} |->
       IF i = image
       THEN (IF image \in DOMAIN failures THEN failures[image] ELSE <<>>)
            \o << NodeReasonMessage(v) >>
       ELSE failures[i]]

\* (variant: a success is recorded whether or not a failure was seen before)
VisitLastWins(acc, v) ==
  IF IsSuccess(v)
  THEN [acc EXCEPT !.status = ImageCacheActionStatusSucceeded,
                   !.message = ImageCacheMessageImagesPulledSuccessfully]
  ELSE [acc EXCEPT !.failed = TRUE,
                   !.status = ImageCacheActionStatusFailed,
                   !.message = ImageCacheMessageImagePullFailedForSomeImages,
                   !.failures = AddFailure(@, v)]

\* one iteration of the loop over the results
Visit(acc, v) ==
  LET a1 == IF IsSuccess(v) /\ ~acc.failed
            THEN [acc EXCEPT !.status = ImageCacheActionStatusSucceeded,
                             !.message =
                               IF v.request.workType = ImageCachePurge
                               THEN ImageCacheMessageImagesDeletedSuccessfully
                               ELSE ImageCacheMessageImagesPulledSuccessfully]
            ELSE acc
      a2 == IF IsFailure(v) /\ ~a1.failed
            THEN [a1 EXCEPT !.failed = TRUE,
                            !.status = ImageCacheActionStatusFailed,
                            !.message =
                              IF v.request.workType = ImageCachePurge
                              THEN ImageCacheMessageImageDeleteFailedForSomeImages
                              ELSE ImageCacheMessageImagePullFailedForSomeImages]
            ELSE a1 IN
    IF IsFailure(v) THEN [a2 EXCEPT !.failures = AddFailure(@, v)] ELSE a2

RECURSIVE VisitAll(_, _)
VisitAll(acc, results) ==
  IF results = <<>> THEN acc ELSE VisitAll(Visit(acc, Head(results)), Tail(results))

\* the status a StatusUpdate writes for the object fetched and the results visited
\* (variant: the aggregated status does not take over the start time)
AggregateWithoutStart(imageCache, results) ==
  LET acc == VisitAll([status |-> ImageCacheActioneNoImagesPulledOrDeleted,
                       message |-> ImageCacheMessageNoImagesPulledOrDeleted,
                       failed |-> FALSE, failures |-> <<>>], results) IN
    [status |-> acc.status, reason |-> imageCache.status.reason,
     message |-> acc.message, failures |-> acc.failures,
     startTime |-> 0, completionTime |-> 0]

\* (variant: the reason is that of the work type of the results)
AggregateReasonOfBatch(imageCache, results) ==
  LET acc == VisitAll([status |-> ImageCacheActioneNoImagesPulledOrDeleted,
                       message |-> ImageCacheMessageNoImagesPulledOrDeleted,
                       failed |-> FALSE, failures |-> <<>>], results) IN
    [status |-> acc.status,
     reason |-> IF results = <<>> THEN imageCache.status.reason
                ELSE ReasonOf(results[1].request.workType),
     message |-> acc.message, failures |-> acc.failures,
     startTime |-> imageCache.status.startTime, completionTime |-> 0]

Aggregate(imageCache, results) ==
  LET acc == VisitAll([status |-> ImageCacheActioneNoImagesPulledOrDeleted,
                       message |-> ImageCacheMessageNoImagesPulledOrDeleted,
                       failed |-> FALSE, failures |-> <<>>], results) IN
    [status |-> acc.status, reason |-> imageCache.status.reason,
     message |-> acc.message, failures |-> acc.failures,
     startTime |-> imageCache.status.startTime, completionTime |-> 0]

\* the orders in which a map of n entries can be iterated
Orders(n) ==
  {p \in [1..n -> 1..n] : \A i, j \in 1..n : i # j => p[i] # p[j]}

InOrder(results, p) == [i \in 1..Len(results) |-> results[p[i]]]

(***************************************************************************)
(* syncHandler.  cached is the lister's object, current the object the     *)
(* cluster returns, now the clock reading, fault the cluster call that     *)
(* fails ("none"; "early": a get or update up to the status write;         *)
(* "late": the get or update of the annotation removal; "list1", "list2":  *)
(* the List of the nodes of that cacheSpec entry), order the order         *)
(* in which the results are visited.  The result: the error returned, the  *)
(* objects written to the cluster in turn, and the requests added to the   *)
(* image work queue.                                                       *)
(***************************************************************************)
Outcome(err, writes, requests) ==
  [err |-> err, writes |-> writes, requests |-> requests, panics |-> FALSE]

\* the call does not return: a run-time panic unwinds it (the deferred Done
\* of processNextWorkItem runs) and ends the process
Panicked(writes, requests) ==
  [err |-> TRUE, writes |-> writes, requests |-> requests, panics |-> TRUE]

\* the first cacheSpec entry at which an Update pass reads an entry of the old
\* cacheSpec that does not exist (0: none).  The read is inside the loop over
\* the nodes of the entry, so an entry that selects no node does not get there
PanicsAt(wqKey, cacheSpec) ==
  LET beyond == {k \in 1..Len(cacheSpec) :
                   /\ wqKey.workType = ImageCacheUpdate
                   /\ k > Len(wqKey.oldImageCache.spec)
                   /\ ListNodes(cacheSpec[k].nodeSelector) # <<>>} IN
    IF beyond = {} THEN 0 ELSE CHOOSE k \in beyond : \A j \in beyond : k <= j

\* what the pass has added when it panics at entry k: the requests of the
\* entries before, and the pull requests of the first node of entry k
RequestsUntilPanic(wqKey, cacheSpec, k) ==
  LET entry == cacheSpec[k]
      node == ListNodes(entry.nodeSelector)[1] IN
    Flatten([j \in 1..(k - 1) |-> RequestsForEntry(wqKey, j, cacheSpec[j])])
    \o [j \in 1..Len(entry.images) |->
          ImageWorkRequest(entry.images[j], node, wqKey.workType, wqKey.objKey)]

\* the faults of the node lister: "list1" is the List of cacheSpec entry 1 failing
ListFaults == {"list1", "list2"}
ListFaultAt(fault) == IF fault = "list1" THEN 1 ELSE 2

\* what a pass has added to the image work queue when the List of entry k fails
RequestsBefore(wqKey, cacheSpec, k) ==
  Flatten([j \in 1..(k - 1) |-> RequestsForEntry(wqKey, j, cacheSpec[j])])

\* (variant: the requests are dispatched before the Processing status is persisted)
syncPassRequestsFirst(wqKey, cached, current, now, fault) ==
  IF cached = Nil THEN Outcome(TRUE, <<>>, <<>>)
  ELSE IF wqKey.workType = ImageCacheUpdate /\ wqKey.oldImageCache = Nil
    THEN Outcome(TRUE, <<>>, <<>>)
  ELSE IF fault # "none"
    THEN Outcome(TRUE, <<>>, Requests(wqKey, CacheSpecOf(wqKey, cached)))
  ELSE Outcome(FALSE,
               << updateImageCacheStatus(current,
                                         ProcessingStatus(wqKey.workType, now), now) >>,
               Requests(wqKey, CacheSpecOf(wqKey, cached)))

syncPass(wqKey, cached, current, now, fault) ==
  IF cached = Nil THEN Outcome(TRUE, <<>>, <<>>)
  ELSE IF fault = "early" THEN Outcome(TRUE, <<>>, <<>>)
  ELSE IF wqKey.workType = ImageCacheUpdate /\ wqKey.oldImageCache = Nil
    THEN Outcome(TRUE,
                 << updateImageCacheStatus(current, OldImageCacheNotFoundStatus(now), now) >>,
                 <<>>)
  ELSE IF fault \in ListFaults
    THEN Outcome(TRUE,
                 << updateImageCacheStatus(current,
                                           ProcessingStatus(wqKey.workType, now), now) >>,
                 RequestsBefore(wqKey, CacheSpecOf(wqKey, cached), ListFaultAt(fault)))
  ELSE IF PanicsAt(wqKey, CacheSpecOf(wqKey, cached)) > 0
    THEN Panicked(<< updateImageCacheStatus(current,
                                            ProcessingStatus(wqKey.workType, now), now) >>,
                  RequestsUntilPanic(wqKey, CacheSpecOf(wqKey, cached),
                                     PanicsAt(wqKey, CacheSpecOf(wqKey, cached))))
  ELSE Outcome(FALSE,
               << updateImageCacheStatus(current,
                                         ProcessingStatus(wqKey.workType, now), now) >>,
               Requests(wqKey, CacheSpecOf(wqKey, cached)))

\* the annotation the StatusUpdate removes from the object fetched after the write
Consumed(imageCache) ==
  IF imageCache.status.reason = ImageCacheReasonImageCachePurge
    THEN {imageCachePurgeAnnotationKey}
  ELSE IF imageCache.status.reason = ImageCacheReasonImageCacheRefresh
    THEN {imageCacheRefreshAnnotationKey} \cap imageCache.annotations
  ELSE {}

\* the StatusUpdate goes on to fetch the object again after the status write
Refetches(imageCache) ==
  imageCache.status.reason \in
    {ImageCacheReasonImageCachePurge, ImageCacheReasonImageCacheRefresh}

syncStatusUpdate(wqKey, current, now, fault, order) ==
  LET status == Aggregate(current, InOrder(wqKey.status.results, order))
      written == updateImageCacheStatus(current, status, now)
      gone == Consumed(written) IN
    IF fault = "early" THEN Outcome(TRUE, <<>>, <<>>)
    ELSE IF ~Refetches(current) THEN Outcome(FALSE, << written >>, <<>>)
    ELSE IF fault = "late" THEN Outcome(TRUE, << written >>, <<>>)
    ELSE IF gone = {} THEN Outcome(FALSE, << written >>, <<>>)
    ELSE Outcome(FALSE,
                 << written, removeAnnotation(written, CHOOSE a \in gone : TRUE) >>,
                 <<>>)

EventTypeNormal == "Normal"
EventTypeWarning == "Warning"

\* c.recorder.Event(imageCache, eventtype, reason, message)
Event(name, eventtype, reason, message) ==
  [object |-> name, type |-> eventtype, reason |-> reason, message |-> message]

\* (variant: a failed aggregation is reported as a Normal event too)
EventsAllNormal(wqKey, out) ==
  IF wqKey.workType # ImageCacheStatusUpdate \/ out.err THEN <<>>
  ELSE LET status == out.writes[1].status IN
         << Event(wqKey.objKey, EventTypeNormal, status.reason, status.message) >>

\* the events of one syncHandler call: those of a StatusUpdate that reaches
\* the end, from the status it has aggregated
Events(wqKey, out) ==
  IF wqKey.workType # ImageCacheStatusUpdate \/ out.err THEN <<>>
  ELSE LET status == out.writes[1].status IN
         (IF status.status \in {ImageCacheActionStatusSucceeded,
                                ImageCacheActioneNoImagesPulledOrDeleted}
          THEN << Event(wqKey.objKey, EventTypeNormal, status.reason, status.message) >>
          ELSE <<>>)
         \o (IF status.status = ImageCacheActionStatusFailed
             THEN << Event(wqKey.objKey, EventTypeWarning, status.reason, status.message) >>
             ELSE <<>>)

syncHandler(wqKey, cached, current, now, fault, order) ==
  IF wqKey.workType = ImageCacheStatusUpdate
  THEN syncStatusUpdate(wqKey, current, now, fault, order)
  ELSE syncPass(wqKey, cached, current, now, fault)

\* the faults syncHandler can meet on this key
Faults(wqKey, current) ==
  {"none"} \cup
  (IF budget.fails > 0
   THEN {"early"}
        \cup (IF wqKey.workType = ImageCacheStatusUpdate /\ Refetches(current)
              THEN {"late"} ELSE {})
        \cup (IF IsPassKey(wqKey) /\ lister[wqKey.objKey] # Nil
                 /\ ~(wqKey.workType = ImageCacheUpdate /\ wqKey.oldImageCache = Nil)
              THEN {f \in ListFaults :
                      /\ ListFaultAt(f) <= Len(CacheSpecOf(wqKey, lister[wqKey.objKey]))
                      /\ PanicsAt(wqKey, CacheSpecOf(wqKey, lister[wqKey.objKey]))
                           \in {0} \cup (ListFaultAt(f)..MaxEntries)}
              ELSE {})
   ELSE {})

(***************************************************************************)
(* The controller and its environment.                                     *)
(***************************************************************************)
TerminalWritten == {ImageCacheActionStatusSucceeded, ImageCacheActionStatusFailed,
                    ImageCacheActioneNoImagesPulledOrDeleted}

UpdateEvent(obj, by) == [type |-> ImageCacheUpdate, obj |-> obj, by |-> by]
AddEvent(obj) == [type |-> ImageCacheCreate, obj |-> obj, by |-> "operator"]

\* the names in a fixed order
RECURSIVE SeqOf(_)
SeqOf(S) == IF S = {} THEN <<>>
            ELSE LET x == CHOOSE x \in S : TRUE IN <<x>> \o SeqOf(S \ {x})

Last(seq, default) == IF seq = <<>> THEN default ELSE seq[Len(seq)]

\* a clock reading: the clock moves on between two readings, or does not
Readings == {t \in clock..(clock + 1) : t <= MaxClock}

\* what a previous run of the controller may have left in the cluster
LeftProcessing ==
  [status |-> ImageCacheActionStatusProcessing,
   reason |-> ImageCacheReasonImageCacheCreate,
   message |-> ImageCacheMessagePullingImages, failures |-> <<>>,
   startTime |-> 1, completionTime |-> 0]

Init ==
  /\ api \in [ImageCacheNames ->
               {NewImageCache(n, SpecFoo, {}, st) :
                  n \in ImageCacheNames, st \in {EmptyStatus, LeftProcessing}}]
  /\ \A n \in ImageCacheNames : api[n].name = n
  /\ lister = [n \in ImageCacheNames |-> Nil]
  /\ watch = <<>>
  /\ workqueue = NewWorkQueue
  /\ imageworkqueue = <<>>
  /\ worker = [w \in 1..Threadiness |-> [pc |-> "idle", key |-> Nil]]
  /\ manager = [results |-> <<>>, passes |-> 0]
  /\ budget = [edits |-> MaxEdits, fails |-> MaxFail, ticks |-> MaxTicks,
               nodes |-> MaxNodeEvents]
  /\ clock = 1
  /\ phase = "preflight"
  /\ call = NoCall
  /\ owed = {}
  /\ dropped = {}
  /\ jobs = << "job" >>
  /\ nodesCache = {}
  /\ fanout = <<>>
  /\ nodesLister = NodeList
  /\ recorder = <<>>

\* danglingImageCaches over the listed names; failAt is the 1-based position of the
\* dangling ImageCache whose status update fails (0: none fails)
\* (variant: the abort does not carry the start time over)
AbortedStatusWithoutStart(imageCache) ==
  [status |-> ImageCacheActionStatusAborted,
   reason |-> ImageCacheReasonImagePullAborted,
   message |-> ImageCacheMessageImagePullAborted, failures |-> <<>>,
   startTime |-> 0, completionTime |-> 0]

AbortedStatus(imageCache) ==
  [status |-> ImageCacheActionStatusAborted,
   reason |-> ImageCacheReasonImagePullAborted,
   message |-> ImageCacheMessageImagePullAborted, failures |-> <<>>,
   startTime |-> imageCache.status.startTime, completionTime |-> 0]

Dangling(objs) ==
  Filter(SeqOf(DOMAIN objs),
         {n \in DOMAIN objs :
            objs[n].status.status = ImageCacheActionStatusProcessing})

danglingImageCaches(objs, failAt, now) ==
  LET names == Dangling(objs)
      done == {names[j] : j \in {i \in 1..Len(names) : failAt = 0 \/ i < failAt}} IN
    [n \in DOMAIN objs |->
       IF n \in done
       THEN updateImageCacheStatus(objs[n], AbortedStatus(objs[n]), now)
       ELSE objs[n]]

\* danglingJobs: the jobs are deleted in the order listed.  The jobs left when
\* nothing fails (failAt = 0), when the delete of the failAt-th job fails, or
\* when the list itself fails (failAt = Len(joblist) + 1)
danglingJobs(joblist, failAt) ==
  IF failAt = 0 THEN <<>>
  ELSE IF failAt > Len(joblist) THEN joblist
  ELSE SubSeq(joblist, failAt, Len(joblist))

\* PreFlightChecks with danglingJobs returning no error, then (when
\* danglingImageCaches returns none either) the start of the informers: every
\* ImageCache of the cluster is delivered as an Add event.
PreFlightChecks ==
  /\ phase = "preflight"
  /\ jobs' = danglingJobs(jobs, 0)
  /\ \E now \in Readings, failAt \in 0..Len(Dangling(api)) :
       /\ failAt # 0 => budget.fails > 0
       /\ clock' = now
       /\ api' = danglingImageCaches(api, failAt, now)
       /\ IF failAt = 0
          THEN /\ phase' = "running"
               /\ watch' = [j \in 1..Cardinality(DOMAIN api) |->
                              AddEvent(api'[SeqOf(DOMAIN api)[j]])]
               /\ UNCHANGED budget
          ELSE /\ phase' = "aborted"
               /\ budget' = [budget EXCEPT !.fails = @ - 1]
               /\ UNCHANGED watch
  /\ UNCHANGED << lister, workqueue, imageworkqueue, worker, manager, call,
                  owed, dropped, nodesCache, fanout, nodesLister, recorder >>

\* (variant: the error of danglingJobs is logged and danglingImageCaches runs)
PreFlightChecksIgnoringJobs ==
  /\ phase = "preflight"
  /\ budget.fails > 0
  /\ \E failAt \in 0..(Len(jobs) + 1) : jobs' = danglingJobs(jobs, failAt)
  /\ api' = danglingImageCaches(api, 0, clock)
  /\ phase' = "aborted"
  /\ budget' = [budget EXCEPT !.fails = @ - 1]
  /\ UNCHANGED << lister, watch, workqueue, imageworkqueue, worker, manager,
                  clock, call, owed, dropped, nodesCache, fanout, nodesLister, recorder >>

\* PreFlightChecks returning the error of danglingJobs (the list of the jobs
\* fails: failAt = Len(jobs) + 1; the delete of the failAt-th job fails), or the
\* error of the list of the ImageCaches (failAt = 0: every job was deleted)
PreFlightChecksFails ==
  /\ phase = "preflight"
  /\ budget.fails > 0
  /\ \E failAt \in 0..(Len(jobs) + 1) : jobs' = danglingJobs(jobs, failAt)
  /\ phase' = "aborted"
  /\ budget' = [budget EXCEPT !.fails = @ - 1]
  /\ UNCHANGED << api, lister, watch, workqueue, imageworkqueue, worker, manager,
                  clock, call, owed, dropped, nodesCache, fanout, nodesLister, recorder >>

\* The operator changes the spec, adds trigger annotations, or both.
OperatorUpdate(n) ==
  /\ phase = "running"
  /\ budget.edits > 0
  /\ \E spec \in SpecValues, added \in SUBSET (AnnotationKeys \ api[n].annotations) :
       /\ spec # api[n].spec \/ added # {}
       /\ api' = [api EXCEPT ![n].spec = spec, ![n].annotations = @ \cup added]
       /\ watch' = Append(watch, UpdateEvent(api'[n], "operator"))
  /\ budget' = [budget EXCEPT !.edits = @ - 1]
  /\ UNCHANGED << lister, workqueue, imageworkqueue, worker, manager, clock,
                  phase, call, owed, dropped,
                  jobs, nodesCache, fanout, nodesLister, recorder >>

\* The informer stores the next event's object and calls the event handler.
InformerDeliver ==
  /\ phase = "running"
  /\ watch # <<>>
  /\ LET e == Head(watch)
         old == lister[e.obj.name]
         handled == Call(e.type, old, e.obj, e.by) IN
       /\ lister' = [lister EXCEPT ![e.obj.name] = e.obj]
       /\ workqueue' = Enqueued(workqueue, handled)
       /\ owed' = owed \cup OwedBy(<< handled >>)
       /\ dropped' = dropped \cup DroppedBy(<< handled >>)
  /\ watch' = Tail(watch)
  /\ UNCHANGED << api, imageworkqueue, worker, manager, budget, clock, phase,
                  call,
                  jobs, nodesCache, fanout, nodesLister, recorder >>

\* (variant: a purged ImageCache is refreshed like any other)
EligibleAlsoPurged(imageCache) ==
  /\ imageCache.status # EmptyStatus
  /\ imageCache.status.status # ImageCacheActionStatusProcessing
  /\ ~(imageCache.status.status = ImageCacheActionStatusFailed
        /\ imageCache.status.reason = ImageCacheReasonCacheSpecValidationFailed)

\* runRefreshWorker: the ImageCaches of the lister the refresh timer enqueues
Eligible(imageCache) ==
  /\ imageCache.status # EmptyStatus
  /\ imageCache.status.status # ImageCacheActionStatusProcessing
  /\ ~(imageCache.status.status = ImageCacheActionStatusFailed
        /\ imageCache.status.reason = ImageCacheReasonCacheSpecValidationFailed)
  /\ imageCache.status.reason # ImageCacheReasonImageCachePurge

runRefreshWorker ==
  /\ phase = "running"
  /\ budget.ticks > 0
  /\ LET names == Filter(SeqOf(DOMAIN lister),
                         {n \in DOMAIN lister :
                            lister[n] # Nil /\ Eligible(lister[n])})
         calls == [j \in 1..Len(names) |->
                     Call(ImageCacheRefresh, lister[names[j]], Nil, "timer")] IN
       /\ workqueue' = EnqueueAll(workqueue, calls)
       /\ owed' = owed \cup OwedBy(calls)
  /\ budget' = [budget EXCEPT !.ticks = @ - 1]
  /\ UNCHANGED << api, lister, watch, imageworkqueue, worker, manager, clock,
                  phase, call, dropped,
                  jobs, nodesCache, fanout, nodesLister, recorder >>

\* processNextWorkItem, up to the return of workqueue.Get
WorkerGet(w) ==
  /\ phase = "running"
  /\ worker[w].pc = "idle"
  /\ \E key \in Available(workqueue) :
       /\ worker' = [worker EXCEPT ![w] = [pc |-> "sync", key |-> key]]
       /\ workqueue' = Get(workqueue, key)
  /\ UNCHANGED << api, lister, watch, imageworkqueue, manager, budget, clock,
                  phase, call, owed, dropped,
                  jobs, nodesCache, fanout, nodesLister, recorder >>

\* the type assertion obj.(images.WorkQueueKey)
IsWorkQueueKey(obj) == "workType" \in DOMAIN obj

\* (variant: a key whose syncHandler failed is added back through the rate limiter)
AfterSyncRetrying(wq, key, err) ==
  Done(IF err THEN AddRateLimited(wq, key) ELSE Forget(wq, key), key)

\* processNextWorkItem after syncHandler returned err: Forget on success, then the
\* deferred Done; nothing adds the key back
AfterSync(wq, key, err) == Done(IF err THEN wq ELSE Forget(wq, key), key)

\* processNextWorkItem, from the call of syncHandler to its return
WorkerSync(w) ==
  /\ phase = "running"
  /\ worker[w].pc = "sync"
  /\ IsWorkQueueKey(worker[w].key)
  /\ LET key == worker[w].key
         n == key.objKey
         batch == IF key.status = Nil THEN <<>> ELSE key.status.results IN
       \E now \in Readings, fault \in Faults(key, api[n]),
          order \in Orders(Len(batch)) :
         LET out == syncHandler(key, lister[n], api[n], now, fault, order)
             passStarted == ~out.err /\ IsPassKey(key) IN
           /\ clock' = now
           /\ budget' = [budget EXCEPT !.fails = IF fault = "none" THEN @ ELSE @ - 1]
           /\ api' = [api EXCEPT ![n] = Last(out.writes, @)]
           /\ watch' = watch \o [j \in 1..Len(out.writes) |->
                                   UpdateEvent(out.writes[j], "controller")]
           /\ imageworkqueue' = imageworkqueue \o Arrival(out.requests)
           /\ recorder' = Events(key, out)
           /\ phase' = IF out.panics THEN "crashed" ELSE phase
           /\ workqueue' = AfterSync(workqueue, key, out.err)
           /\ owed' = IF \E j \in 1..Len(out.writes) :
                           out.writes[j].status.status \in TerminalWritten
                      THEN owed \ {n} ELSE owed
           /\ dropped' = IF passStarted THEN dropped \ {n} ELSE dropped
  /\ worker' = [worker EXCEPT ![w] = [pc |-> "idle", key |-> Nil]]
  /\ UNCHANGED << lister, manager, call,
                  jobs, nodesCache, fanout, nodesLister >>

(***************************************************************************)
(* The image work manager: it takes the requests off the image work queue  *)
(* in turn, runs a job for each and records its result; at the sentinel it *)
(* emits one StatusUpdate key with the results of the pass.                *)
(***************************************************************************)
JobResults == {ImageWorkResultStatusSucceeded, ImageWorkResultStatusFailed}

ImageWorkResult(status, request) ==
  [status |-> status, reason |-> "", message |-> "", request |-> request]

ManagerJob ==
  /\ phase = "running"
  /\ imageworkqueue # <<>>
  /\ ~IsSentinel(Head(imageworkqueue))
  /\ \E status \in JobResults :
       manager' = [manager EXCEPT
                     !.results = Append(@, ImageWorkResult(status, Head(imageworkqueue)))]
  /\ imageworkqueue' = Tail(imageworkqueue)
  /\ UNCHANGED << api, lister, watch, workqueue, worker, budget, clock, phase,
                  call, owed, dropped,
                  jobs, nodesCache, fanout, nodesLister, recorder >>

ManagerStatusUpdate ==
  /\ phase = "running"
  /\ imageworkqueue # <<>>
  /\ IsSentinel(Head(imageworkqueue))
  /\ workqueue' =
       AddRateLimited(workqueue,
         WorkQueueKey(ImageCacheStatusUpdate, Head(imageworkqueue).imagecache,
                      [pass |-> manager.passes + 1, results |-> manager.results],
                      Nil))
  /\ manager' = [results |-> <<>>, passes |-> manager.passes + 1]
  /\ imageworkqueue' = Tail(imageworkqueue)
  /\ UNCHANGED << api, lister, watch, worker, budget, clock, phase, call, owed,
                  dropped,
                  jobs, nodesCache, fanout, nodesLister, recorder >>

(***************************************************************************)
(* enqueueNode: the handler of the node informer.  A node seen Ready for   *)
(* the first time is remembered, and the ImageCaches listed at that moment *)
(* are enqueued for a refresh once defaultNodeLatency has elapsed.         *)
(***************************************************************************)
NodeReady == "Ready"
ConditionTrue == "True"
ConditionFalse == "False"

\* the conditions a node may report
NodeConditions ==
  { <<>>,
    << [type |-> NodeReady, status |-> ConditionTrue] >>,
    << [type |-> NodeReady, status |-> ConditionFalse] >>,
    << [type |-> "MemoryPressure", status |-> ConditionTrue],
       [type |-> NodeReady, status |-> ConditionTrue] >> }

Nodes == {[name |-> n, conditions |-> c] : n \in NodeNames, c \in NodeConditions}

RECURSIVE IsNodeReady(_)
IsNodeReady(conditions) ==
  IF conditions = <<>> THEN FALSE
  ELSE IF Head(conditions).type = NodeReady
    THEN Head(conditions).status = ConditionTrue
  ELSE IsNodeReady(Tail(conditions))

\* the ImageCaches the lister returns, in its order
Listed == LET names == Filter(SeqOf(DOMAIN lister), {n \in DOMAIN lister : lister[n] # Nil})
          IN [j \in 1..Len(names) |-> lister[names[j]]]

\* (variant: the fan-out is started for every Ready event, seen before or not)
SeenReadyNever(node) == FALSE

SeenReady(node) == node.name \in nodesCache

enqueueNode(node, operation) ==
  /\ phase = "running"
  /\ budget.nodes > 0
  /\ budget' = [budget EXCEPT !.nodes = @ - 1]
  /\ IF operation = "delete"
     THEN /\ nodesCache' = nodesCache \ {node.name}
          /\ UNCHANGED fanout
     ELSE IF IsNodeReady(node.conditions) /\ ~SeenReady(node)
     THEN /\ nodesCache' = nodesCache \cup {node.name}
          /\ fanout' = Append(fanout, Listed)
     ELSE UNCHANGED << nodesCache, fanout >>
  /\ UNCHANGED << api, lister, watch, workqueue, imageworkqueue, worker, manager,
                  clock, phase, call, owed, dropped, jobs, nodesLister, recorder >>

\* the ticker of one fan-out fires: a Refresh is requested for every ImageCache of
\* its snapshot, whatever its status
NodeFanout ==
  /\ phase = "running"
  /\ \E i \in 1..Len(fanout) :
       LET ics == fanout[i]
           calls == [j \in 1..Len(ics) |->
                       Call(ImageCacheRefresh, ics[j], ics[j], "node")] IN
         /\ workqueue' = EnqueueAll(workqueue, calls)
         /\ owed' = owed \cup OwedBy(calls)
         /\ fanout' = SubSeq(fanout, 1, i - 1) \o SubSeq(fanout, i + 1, Len(fanout))
  /\ UNCHANGED << api, lister, watch, imageworkqueue, worker, manager, budget,
                  clock, phase, call, dropped, jobs, nodesCache, nodesLister, recorder >>

NodeEvent ==
  \E node \in Nodes, operation \in {"add", "update", "delete"} :
    enqueueNode(node, operation)

Next ==
  \/ PreFlightChecks
  \/ PreFlightChecksFails
  \/ \E n \in ImageCacheNames : OperatorUpdate(n)
  \/ InformerDeliver
  \/ runRefreshWorker
  \/ \E w \in 1..Threadiness : WorkerGet(w)
  \/ \E w \in 1..Threadiness : WorkerSync(w)
  \/ ManagerJob
  \/ ManagerStatusUpdate

Spec == Init /\ [][Next]_vars

(***************************************************************************)
(* The controller with its node informer, from the moment a purge has      *)
(* ended: the ImageCache is Succeeded with reason ImageCachePurge, its     *)
(* annotation removed, nothing queued, and no node seen Ready so far.  No  *)
(* cluster call fails.                                                     *)
(***************************************************************************)
PurgedStatus ==
  [status |-> ImageCacheActionStatusSucceeded,
   reason |-> ImageCacheReasonImageCachePurge,
   message |-> ImageCacheMessageImagesDeletedSuccessfully, failures |-> <<>>,
   startTime |-> 1, completionTime |-> 1]

NodeInit ==
  /\ api = [n \in ImageCacheNames |-> NewImageCache(n, SpecFoo, {}, PurgedStatus)]
  /\ lister = api
  /\ watch = <<>>
  /\ workqueue = NewWorkQueue
  /\ imageworkqueue = <<>>
  /\ worker = [w \in 1..Threadiness |-> [pc |-> "idle", key |-> Nil]]
  /\ manager = [results |-> <<>>, passes |-> 0]
  /\ budget = [edits |-> MaxEdits, fails |-> 0, ticks |-> MaxTicks,
               nodes |-> MaxNodeEvents]
  /\ clock = 1
  /\ phase = "running"
  /\ call = NoCall
  /\ owed = {}
  /\ dropped = {}
  /\ jobs = <<>>
  /\ nodesCache = {}
  /\ fanout = <<>>
  /\ nodesLister = NodeList
  /\ recorder = <<>>

NodeNext ==
  \/ \E n \in ImageCacheNames : OperatorUpdate(n)
  \/ InformerDeliver
  \/ runRefreshWorker
  \/ \E w \in 1..Threadiness : WorkerGet(w)
  \/ \E w \in 1..Threadiness : WorkerSync(w)
  \/ ManagerJob
  \/ ManagerStatusUpdate
  \/ NodeEvent
  \/ NodeFanout

SpecNode == NodeInit /\ [][NodeNext]_vars

(***************************************************************************)
(* Properties of the event handlers.                                       *)
(***************************************************************************)
IsUpdateCall == call.workType = ImageCacheUpdate

NothingEnqueued == ~call.ret /\ call.key = Nil

\* the call put exactly the key k on the work queue of the fresh controller
OnlyEnqueued(k) == call.ret /\ call.key = k /\ KeysOf(workqueue) = {k}

\* C3: an Update event whose old object is Processing and whose spec changed
\* is dropped: enqueueImageCache returns false and no key is enqueued,
\* whatever the annotations of the new object.
C3_ProcessingSpecChangeDropped ==
  (IsUpdateCall /\ call.old.status.status = ImageCacheActionStatusProcessing
     /\ call.new.spec # call.old.spec)
  => (NothingEnqueued /\ workqueue = NewWorkQueue)

C3_Witness ==
  /\ IsUpdateCall
  /\ call.old.status.status = ImageCacheActionStatusProcessing
  /\ call.new.spec # call.old.spec
  /\ call.old.annotations = {}
  /\ call.new.annotations = AnnotationKeys
  /\ ~call.ret

\* C4: while the old object is Processing, an Update event that newly adds
\* the purge or the refresh annotation (spec unchanged) enqueues no Purge or
\* Refresh key.
C4_AnnotationIgnoredWhileProcessing ==
  (IsUpdateCall /\ call.old.status.status = ImageCacheActionStatusProcessing
     /\ call.new.spec = call.old.spec
     /\ \E a \in AnnotationKeys : NewlyPresent(a, call.old, call.new))
  => (NothingEnqueued /\ workqueue = NewWorkQueue)

\* C6: an Add event enqueues exactly one Create key when the status is
\* entirely empty, and no key when any field of the status is non-empty.
C6_AddEnqueuesIffStatusEmpty ==
  call.workType = ImageCacheCreate =>
    IF call.new.status = EmptyStatus
    THEN OnlyEnqueued(WorkQueueKey(ImageCacheCreate, call.new.name, Nil, Nil))
    ELSE NothingEnqueued /\ workqueue = NewWorkQueue

C6_Witness ==
  /\ call.workType = ImageCacheCreate
  /\ call.new.status.status = ""
  /\ call.new.status.startTime # 0
  /\ ~call.ret

\* C7: an Update event the Processing rule does not drop yields a single
\* key, by the rules in order: Purge when the purge annotation is newly
\* present (even with the refresh annotation newly present or the spec
\* changed), else Refresh when the refresh annotation is newly present
\* (even with the spec changed).
C7_AnnotationRulesInOrder ==
  (IsUpdateCall /\ ~ProcessingRule(call.old, call.new)) =>
    /\ NewlyPresent(imageCachePurgeAnnotationKey, call.old, call.new)
         => OnlyEnqueued(WorkQueueKey(ImageCachePurge, call.new.name, Nil, Nil))
    /\ (~NewlyPresent(imageCachePurgeAnnotationKey, call.old, call.new)
          /\ NewlyPresent(imageCacheRefreshAnnotationKey, call.old, call.new))
         => OnlyEnqueued(WorkQueueKey(ImageCacheRefresh, call.new.name, Nil, Nil))

C7_Witness ==
  /\ IsUpdateCall
  /\ call.old.status.status # ImageCacheActionStatusProcessing
  /\ call.old.annotations = {}
  /\ call.new.annotations = AnnotationKeys
  /\ call.new.spec # call.old.spec
  /\ call.key # Nil /\ call.key.workType = ImageCachePurge

\* C10: a Delete event enqueues no key and leaves the controller's state
\* (both queues, the workers) as it was.
C10_DeleteDropped ==
  call.workType = ImageCacheDelete =>
    /\ NothingEnqueued
    /\ workqueue = NewWorkQueue
    /\ imageworkqueue = <<>>
    /\ \A w \in 1..Threadiness : worker[w].pc = "idle"

C10_Witness == call.workType = ImageCacheDelete /\ call.old \in HarnessObjects

(***************************************************************************)
(* Properties of the running controller.                                   *)
(***************************************************************************)
Idle == \A w \in 1..Threadiness : worker[w].pc = "idle"

\* nothing is left to do unless the operator or the timer acts
Quiescent ==
  /\ phase = "running"
  /\ watch = <<>>
  /\ KeysOf(workqueue) = {}
  /\ imageworkqueue = <<>>
  /\ manager.results = <<>>
  /\ Idle

\* C1: work is never silently lost: once nothing is queued, waiting to be
\* retried or in flight any more, every ImageCache for which a Create,
\* Update, Refresh or Purge key was enqueued has had a terminal status
\* write since, also when a cluster call of syncHandler failed once.
C1_NoWorkLost == Quiescent => owed = {}

\* (I1) for one object
CompletionTimeIffTerminal(imageCache) ==
  (imageCache.status.completionTime # 0)
    <=> (imageCache.status.status \notin {ImageCacheActionStatusProcessing, ""})

\* C2: completionTime is set iff status.status is neither Processing nor
\* empty, for every ImageCache as persisted, as listed and as carried by
\* every pending event, and for the status of each kind the controller
\* writes.
C2_CompletionTimeIffTerminal ==
  /\ \A n \in ImageCacheNames :
       /\ CompletionTimeIffTerminal(api[n])
       /\ lister[n] # Nil => CompletionTimeIffTerminal(lister[n])
       /\ CompletionTimeIffTerminal(
            updateImageCacheStatus(api[n], OldImageCacheNotFoundStatus(clock), clock))
       /\ CompletionTimeIffTerminal(
            updateImageCacheStatus(api[n], ProcessingStatus(ImageCachePurge, clock), clock))
  /\ \A i \in 1..Len(watch) : CompletionTimeIffTerminal(watch[i].obj)

C2_Witness ==
  \E n \in ImageCacheNames :
    /\ api[n].status.status = ImageCacheActionStatusFailed
    /\ api[n].status.completionTime # 0
    /\ api[n].status.reason = ImageCacheReasonImageCacheRefresh

\* the arguments of the handler call the next delivery makes
NextEvent == Head(watch)
NextOld == lister[NextEvent.obj.name]
NextNew == NextEvent.obj
DeliversUpdate == InformerDeliver /\ NextEvent.type = ImageCacheUpdate

NoTrigger(old, new) ==
  \A a \in AnnotationKeys : ~NewlyPresent(a, old, new)

\* the event of a status write that takes the object out of Processing
LeavesProcessing(old, new) ==
  /\ old.status.status = ImageCacheActionStatusProcessing
  /\ new.status.status # ImageCacheActionStatusProcessing

\* C5 as claimed: with a dropped spec change pending, the delivery of the
\* event of the terminal status write enqueues a key.
C5_TerminalEventEnqueues ==
  [][(DeliversUpdate /\ NextEvent.by = "controller"
        /\ LeavesProcessing(NextOld, NextNew)
        /\ NextNew.name \in dropped)
     => workqueue'.dirty # workqueue.dirty]_vars

\* a worker starts a pass: the Processing status is written, requests are dispatched
StartsPass(w) ==
  /\ WorkerSync(w)
  /\ IsPassKey(worker[w].key)
  /\ imageworkqueue' # imageworkqueue

\* C5 amended: the event of the terminal status write enqueues no key, so
\* the dropped spec change stays pending; a refresh tick enqueues a Refresh
\* key for the ImageCache when it is eligible; and every pass that starts
\* dispatches the requests of the spec the lister holds at that moment.
C5_DroppedSpecWaitsForNextPass ==
  [][/\ (DeliversUpdate /\ NextEvent.by = "controller"
           /\ LeavesProcessing(NextOld, NextNew)
           /\ NextNew.name \in dropped)
        => (workqueue' = workqueue /\ NextNew.name \in dropped')
     /\ runRefreshWorker =>
          \A n \in ImageCacheNames :
            (lister[n] # Nil /\ Eligible(lister[n]))
              => WorkQueueKey(ImageCacheRefresh, n, Nil, Nil) \in workqueue'.dirty
     /\ \A w \in 1..Threadiness :
          StartsPass(w) =>
            /\ imageworkqueue' =
                 imageworkqueue
                   \o Requests(worker[w].key, lister[worker[w].key.objKey].spec)
            /\ worker[w].key.objKey \notin dropped'
    ]_vars

\* a spec change was dropped and the pass has ended: nothing is queued for it
C5_Witness ==
  \E n \in ImageCacheNames :
    /\ n \in dropped
    /\ Quiescent
    /\ lister[n].status.status = ImageCacheActionStatusSucceeded
    /\ lister[n].spec = SpecBar

\* the Add event of an ImageCache whose status preflight set to Aborted
DeliversAborted ==
  /\ InformerDeliver
  /\ NextEvent.type = ImageCacheCreate
  /\ NextNew.status.status = ImageCacheActionStatusAborted

\* C8: the delivery of an Update event with the spec unchanged and no
\* trigger annotation newly present enqueues no key, and neither does the
\* delivery of any event of a write the controller made itself (Processing,
\* terminal status, annotation removal, preflight abort).
C8_NoSelfTrigger ==
  [][(\/ DeliversUpdate /\ NextNew.spec = NextOld.spec /\ NoTrigger(NextOld, NextNew)
      \/ DeliversUpdate /\ NextEvent.by = "controller"
      \/ DeliversAborted)
     => (workqueue' = workqueue /\ owed' = owed)]_vars

\* the event of the removal of the purge annotation has been delivered, and
\* nothing is queued
C8_Witness ==
  \E n \in ImageCacheNames :
    /\ Quiescent
    /\ lister[n].status.reason = ImageCacheReasonImageCachePurge
    /\ lister[n].status.status = ImageCacheActionStatusSucceeded
    /\ lister[n].annotations = {}

\* the keys the queue and the workers hold
KeysHeld == KeysOf(workqueue) \cup {worker[w].key : w \in 1..Threadiness}

UpdateKeysCarryOld ==
  \A key \in KeysHeld \ {Nil} :
    key.workType = ImageCacheUpdate => key.oldImageCache # Nil

OldImageCacheFound ==
  \A n \in ImageCacheNames :
    api[n].status.reason # ImageCacheReasonOldImageCacheNotFound

\* C9: the delivery of an Update event with the spec changed, the old status
\* not Processing and no trigger annotation newly present adds one key, of
\* type Update with oldImageCache the old object; every Update key held
\* carries an oldImageCache, and no status has reason OldImageCacheNotFound.
C9_UpdateKeyCarriesOld ==
  [][/\ (DeliversUpdate /\ NextNew.spec # NextOld.spec
           /\ NextOld.status.status # ImageCacheActionStatusProcessing
           /\ NoTrigger(NextOld, NextNew))
        => /\ workqueue'.dirty =
                workqueue.dirty
                  \cup {WorkQueueKey(ImageCacheUpdate, NextNew.name, Nil, NextOld)}
           /\ workqueue'.processing = workqueue.processing
     /\ UpdateKeysCarryOld'
     /\ OldImageCacheFound'
    ]_vars

C9_Witness ==
  \E key \in workqueue.dirty :
    /\ key.workType = ImageCacheUpdate
    /\ key.oldImageCache # Nil
    /\ key.oldImageCache.spec # lister[key.objKey].spec
    /\ key.oldImageCache.status.status = ImageCacheActionStatusSucceeded

(***************************************************************************)
(* The refresh harness: one firing of the refresh timer on a fresh         *)
(* controller whose lister holds two ImageCaches, each in any of the       *)
(* statuses below (TestRunRefreshWorker).                                  *)
(***************************************************************************)
RefreshNames == {"foo", "bar"}

RefreshStatuses ==
  { EmptyStatus,
    StatusOf("", "", 1, 0),
    StatusOf(ImageCacheActionStatusProcessing, ImageCacheReasonImageCacheCreate, 1, 0),
    StatusOf(ImageCacheActionStatusSucceeded, ImageCacheReasonImageCacheCreate, 1, 1),
    StatusOf(ImageCacheActionStatusFailed, ImageCacheReasonCacheSpecValidationFailed, 1, 1),
    StatusOf(ImageCacheActionStatusSucceeded, ImageCacheReasonCacheSpecValidationFailed, 1, 1),
    StatusOf(ImageCacheActionStatusFailed, ImageCacheReasonImageCacheRefresh, 1, 1),
    StatusOf(ImageCacheActionStatusSucceeded, ImageCacheReasonImageCachePurge, 1, 1),
    StatusOf(ImageCacheActionStatusProcessing, ImageCacheReasonImageCachePurge, 1, 0),
    StatusOf(ImageCacheActionStatusAborted, ImageCacheReasonImagePullAborted, 1, 1),
    StatusOf(ImageCacheActioneNoImagesPulledOrDeleted, ImageCacheReasonImageCacheUpdate, 1, 1) }

RefreshInit ==
  /\ api \in [RefreshNames -> {NewImageCache(n, SpecFoo, {}, st) :
                                 n \in RefreshNames, st \in RefreshStatuses}]
  /\ \A n \in RefreshNames : api[n].name = n
  /\ lister = api
  /\ watch = <<>>
  /\ workqueue = NewWorkQueue
  /\ imageworkqueue = <<>>
  /\ worker = [w \in 1..Threadiness |-> [pc |-> "idle", key |-> Nil]]
  /\ manager = [results |-> <<>>, passes |-> 0]
  /\ budget = [edits |-> 0, fails |-> 0, ticks |-> MaxTicks, nodes |-> 0]
  /\ clock = 1
  /\ phase = "running"
  /\ call = NoCall
  /\ owed = {}
  /\ dropped = {}
  /\ jobs = <<>>
  /\ nodesCache = {}
  /\ fanout = <<>>
  /\ nodesLister = NodeList
  /\ recorder = <<>>

RefreshNext == runRefreshWorker

SpecRefresh == RefreshInit /\ [][RefreshNext]_vars

\* eligibility for the refresh timer, as specified
RefreshEligible(imageCache) ==
  /\ imageCache.status # EmptyStatus
  /\ imageCache.status.status # ImageCacheActionStatusProcessing
  /\ ~(imageCache.status.status = ImageCacheActionStatusFailed
        /\ imageCache.status.reason = ImageCacheReasonCacheSpecValidationFailed)
  /\ imageCache.status.reason # ImageCacheReasonImageCachePurge

RefreshKey(n) == WorkQueueKey(ImageCacheRefresh, n, Nil, Nil)

\* C11: one refresh tick adds to the work queue exactly the Refresh key of
\* every listed ImageCache that is eligible (status non-empty, not
\* Processing, not Failed with CacheSpecValidationFailed, reason not
\* ImageCachePurge), and no key of any other ImageCache.
C11_RefreshTickEnqueuesEligible ==
  [][runRefreshWorker =>
       /\ workqueue'.dirty =
            workqueue.dirty
              \cup {RefreshKey(n) : n \in {m \in DOMAIN lister :
                                             lister[m] # Nil /\ RefreshEligible(lister[m])}}
       /\ workqueue'.processing = workqueue.processing
       /\ imageworkqueue' = imageworkqueue
    ]_vars

\* after the tick: foo (Aborted) got its key, bar (purged) got none
C11_Witness ==
  /\ budget.ticks = 0
  /\ DOMAIN lister = RefreshNames
  /\ lister["foo"].status.status = ImageCacheActionStatusAborted
  /\ lister["bar"].status.reason = ImageCacheReasonImageCachePurge
  /\ workqueue.dirty = {RefreshKey("foo")}

(***************************************************************************)
(* Properties of the automatic triggers: the refresh timer and the node    *)
(* fan-out.                                                                *)
(***************************************************************************)
Purged(n) ==
  /\ lister[n] # Nil
  /\ lister[n].status.reason = ImageCacheReasonImageCachePurge
  /\ api[n].status.reason = ImageCacheReasonImageCachePurge

\* a refresh tick that requests a refresh of n
TickEnqueues(n) == runRefreshWorker /\ lister[n] # Nil /\ Eligible(lister[n])

\* C12: purge stickiness: as long as the operator has made no edit since
\* the purge ended (no spec edit, no annotation added), no refresh tick
\* enqueues a Refresh key for the ImageCache.
C12_PurgeStickyUntilOperatorActs ==
  [][\A n \in ImageCacheNames :
       (TickEnqueues(n) /\ budget.edits = MaxEdits) => FALSE]_vars

\* C13: for an ImageCache whose status reason is ImageCachePurge, neither
\* the refresh timer nor the fan-out of a node that became Ready enqueues a
\* Refresh key.
C13_PurgedNotAutoRefreshed ==
  [][(runRefreshWorker \/ NodeFanout)
     => \A n \in ImageCacheNames :
          Purged(n) => (RefreshKey(n) \in workqueue'.dirty
                          => RefreshKey(n) \in workqueue.dirty)]_vars

(***************************************************************************)
(* Properties of the StatusUpdate handling.                                *)
(***************************************************************************)
\* worker w runs syncHandler on a StatusUpdate key and no cluster call fails
SyncsStatusUpdate(w) ==
  /\ WorkerSync(w)
  /\ worker[w].key.workType = ImageCacheStatusUpdate
  /\ budget' = budget

\* the reason the pass of a StatusUpdate key set when it entered Processing: the
\* first request of a pass carries the work type of its key
PassReason(key) == ReasonOf(key.status.results[1].request.workType)

AnnotationOf(reason) ==
  IF reason = ImageCacheReasonImageCachePurge
  THEN imageCachePurgeAnnotationKey ELSE imageCacheRefreshAnnotationKey

\* C14: after syncHandler has processed, without error, the StatusUpdate of
\* a pass whose reason is ImageCachePurge (resp. ImageCacheRefresh), the
\* purge-imagecache (resp. refresh-imagecache) annotation is absent from
\* the persisted ImageCache.
C14_AnnotationConsumed ==
  [][\A w \in 1..Threadiness :
       (SyncsStatusUpdate(w)
          /\ PassReason(worker[w].key) \in {ImageCacheReasonImageCachePurge,
                                            ImageCacheReasonImageCacheRefresh})
       => AnnotationOf(PassReason(worker[w].key))
            \notin api'[worker[w].key.objKey].annotations]_vars

(***************************************************************************)
(* The preflight harness: PreFlightChecks on a fresh controller, the       *)
(* cluster holding two ImageCaches in any of the statuses below and up to  *)
(* two jobs of a previous run (TestPreFlightChecks).                       *)
(***************************************************************************)
PreNames == {"foo", "bar"}

FailedWith(failures) ==
  [status |-> ImageCacheActionStatusFailed,
   reason |-> ImageCacheReasonImageCacheRefresh,
   message |-> ImageCacheMessageImagePullFailedForSomeImages,
   failures |-> failures, startTime |-> 1, completionTime |-> 2]

PreStatuses ==
  { EmptyStatus,
    StatusOf(ImageCacheActionStatusProcessing, ImageCacheReasonImageCacheCreate, 1, 0),
    StatusOf(ImageCacheActionStatusProcessing, ImageCacheReasonImageCacheRefresh, 2, 0),
    StatusOf(ImageCacheActionStatusSucceeded, ImageCacheReasonImageCacheCreate, 1, 1),
    StatusOf(ImageCacheActionStatusSucceeded, ImageCacheReasonImageCachePurge, 2, 2),
    FailedWith([foo |-> << [node |-> "bar", reason |-> "", message |-> ""] >>]) }

JobLists == { <<>>, << "job1" >>, << "job1", "job2" >> }

PreInit ==
  /\ api \in [PreNames -> {NewImageCache(n, SpecFoo, {}, st) :
                             n \in PreNames, st \in PreStatuses}]
  /\ \A n \in PreNames : api[n].name = n
  /\ lister = [n \in PreNames |-> Nil]
  /\ watch = <<>>
  /\ workqueue = NewWorkQueue
  /\ imageworkqueue = <<>>
  /\ worker = [w \in 1..Threadiness |-> [pc |-> "idle", key |-> Nil]]
  /\ manager = [results |-> <<>>, passes |-> 0]
  /\ budget = [edits |-> 0, fails |-> MaxFail, ticks |-> 0, nodes |-> 0]
  /\ clock = MaxClock
  /\ phase = "preflight"
  /\ call = NoCall
  /\ owed = {}
  /\ dropped = {}
  /\ jobs \in JobLists
  /\ nodesCache = {}
  /\ fanout = <<>>
  /\ nodesLister = NodeList
  /\ recorder = <<>>

PreNext == PreFlightChecks \/ PreFlightChecksFails

SpecPre == PreInit /\ [][PreNext]_vars

\* PreFlightChecks returns: without error the controller goes on to run
PreFlightReturns == PreFlightChecks \/ PreFlightChecksFails
ReturnsNil == phase' = "running"
ReturnsError == phase' = "aborted"

WasProcessing(n) == api[n].status.status = ImageCacheActionStatusProcessing

\* C15: after PreFlightChecks returned without error, every ImageCache that
\* was Processing has status Aborted, reason ImagePullAborted, its own
\* previous startTime and a completionTime set (spec and annotations as
\* before), and every other ImageCache is unchanged.
C15_PreflightAbortsProcessing ==
  [][(PreFlightReturns /\ ReturnsNil) =>
       \A n \in DOMAIN api :
         IF WasProcessing(n)
         THEN /\ api'[n].status.status = ImageCacheActionStatusAborted
              /\ api'[n].status.reason = ImageCacheReasonImagePullAborted
              /\ api'[n].status.startTime = api[n].status.startTime
              /\ api'[n].status.completionTime # 0
              /\ api'[n].spec = api[n].spec
              /\ api'[n].annotations = api[n].annotations
         ELSE api'[n] = api[n]]_vars

\* both were Processing, with different start times
C15_Witness ==
  /\ phase = "running"
  /\ DOMAIN api = PreNames
  /\ api["foo"].status.status = ImageCacheActionStatusAborted
  /\ api["foo"].status.startTime = 1
  /\ api["bar"].status.status = ImageCacheActionStatusAborted
  /\ api["bar"].status.startTime = 2

\* C16: PreFlightChecks returns an error iff one of its cluster calls
\* fails; when the list or a delete of the dangling jobs fails, no
\* ImageCache has been modified, and the jobs from the failing one on are
\* still there.
C16_PreflightErrorIffCallFails ==
  [][PreFlightReturns =>
       /\ ReturnsError <=> (budget'.fails < budget.fails)
       /\ ReturnsNil <=> (budget' = budget)
       /\ ReturnsNil => jobs' = <<>>
       /\ (ReturnsError /\ jobs' # <<>>) =>
            /\ api' = api
            /\ \E k \in 1..Len(jobs) : jobs' = SubSeq(jobs, k, Len(jobs))]_vars

\* the delete of the second job failed: an ImageCache left Processing is untouched
C16_Witness ==
  /\ phase = "aborted"
  /\ jobs = << "job2" >>
  /\ DOMAIN api = PreNames
  /\ WasProcessing("foo")

(***************************************************************************)
(* Start and completion times.                                             *)
(***************************************************************************)
\* a status write takes the persisted ImageCache n out of Processing
WriteLeavesProcessing(n) == LeavesProcessing(api[n], api'[n])

\* C17 as claimed: every status write that moves an ImageCache out of
\* Processing leaves a non-nil startTime and a completionTime strictly
\* greater than it.
C17_CompletionAfterStart ==
  [][\A n \in ImageCacheNames :
       WriteLeavesProcessing(n) =>
         /\ api'[n].status.startTime # 0
         /\ api'[n].status.completionTime > api'[n].status.startTime]_vars

\* C17 amended: every status write that moves an ImageCache out of
\* Processing leaves a non-nil startTime and a completionTime read from the
\* clock at the write, which is not earlier than the startTime and equal to
\* it when the clock has not moved on since the pass started.
C17_CompletionNotBeforeStart ==
  [][\A n \in ImageCacheNames :
       WriteLeavesProcessing(n) =>
         /\ api'[n].status.startTime # 0
         /\ api'[n].status.completionTime = clock'
         /\ api'[n].status.completionTime >= api'[n].status.startTime
         /\ (clock' = api[n].status.startTime
               => api'[n].status.completionTime = api'[n].status.startTime)]_vars

\* a pass was aggregated at the clock reading at which it started
C17_Witness ==
  \E n \in ImageCacheNames :
    /\ api[n].status.status \in TerminalWritten
    /\ api[n].status.reason # ImageCacheReasonOldImageCacheNotFound
    /\ api[n].status.startTime # 0
    /\ api[n].status.completionTime = api[n].status.startTime

(***************************************************************************)
(* The syncHandler harness: one call of syncHandler on a key a worker has  *)
(* taken off the queue, the cluster holding ImageCache foo in one of the   *)
(* statuses below (TestSyncHandler).  The batch of a StatusUpdate key is   *)
(* any sequence of up to MaxBatch results.                                 *)
(***************************************************************************)
ResultStatuses ==
  {ImageWorkResultStatusSucceeded, ImageWorkResultStatusAlreadyPulled,
   ImageWorkResultStatusFailed, ImageWorkResultStatusUnknown}

ResultValues ==
  { ImageWorkResult(st, ImageWorkRequest(img, NodeList[1], wt, "foo")) :
      st \in ResultStatuses,
      img \in {SpecFoo[1].images[1], SpecBar[1].images[1]},
      wt \in {ImageCacheRefresh, ImageCachePurge} }

Batches == UNION {[1..k -> ResultValues] : k \in 0..MaxBatch}

SyncStatuses ==
  { ProcessingStatus(wt, 1) :
      wt \in {ImageCacheCreate, ImageCacheUpdate, ImageCacheRefresh, ImageCachePurge} }
  \cup { FailedWith([foo |-> << [node |-> "bar", reason |-> "", message |-> ""] >>]) }

SyncKeys ==
  { WorkQueueKey(ImageCacheStatusUpdate, "foo", [pass |-> 1, results |-> b], Nil) :
      b \in Batches }
  \cup { WorkQueueKey(wt, "foo", Nil, Nil) :
           wt \in {ImageCacheCreate, ImageCacheUpdate, ImageCacheRefresh,
                   ImageCachePurge} }
  \cup { WorkQueueKey(ImageCacheUpdate, "foo", Nil,
                      NewImageCache("foo", SpecBar, {}, EmptyStatus)) }

SyncInit ==
  /\ api \in [ImageCacheNames ->
               {NewImageCache("foo", SpecFoo, a, st) :
                  a \in {{}, AnnotationKeys}, st \in SyncStatuses}]
  /\ lister = api
  /\ watch = <<>>
  /\ \E key \in SyncKeys :
       /\ workqueue = Get(AddRateLimited(NewWorkQueue, key), key)
       /\ worker = [w \in 1..Threadiness |->
                      IF w = 1 THEN [pc |-> "sync", key |-> key]
                      ELSE [pc |-> "idle", key |-> Nil]]
  /\ imageworkqueue = <<>>
  /\ manager = [results |-> <<>>, passes |-> 1]
  /\ budget = [edits |-> 0, fails |-> MaxFail, ticks |-> 0, nodes |-> 0]
  /\ clock = 1
  /\ phase = "running"
  /\ call = NoCall
  /\ owed = {}
  /\ dropped = {}
  /\ jobs = <<>>
  /\ nodesCache = {}
  /\ fanout = <<>>
  /\ nodesLister = NodeList
  /\ recorder = <<>>

SyncNext == \E w \in 1..Threadiness : WorkerSync(w)

SpecSync == SyncInit /\ [][SyncNext]_vars

\* the batch of the key worker w holds, and the ImageCache it names
BatchOf(w) == worker[w].key.status.results
ObjOf(w) == worker[w].key.objKey

AnyFailure(batch) == \E j \in 1..Len(batch) : IsFailure(batch[j])
AllSuccess(batch) == \A j \in 1..Len(batch) : IsSuccess(batch[j])

\* C18: the status a StatusUpdate writes is NoImagesPulledOrDeleted iff the
\* batch is empty, Failed iff at least one result is Failed or Unknown, and
\* Succeeded iff the batch is non-empty and every result is Succeeded or
\* AlreadyPulled, in whatever order the results are visited.
C18_StatusFunctionOfBatch ==
  [][\A w \in 1..Threadiness :
       SyncsStatusUpdate(w) =>
         LET written == api'[ObjOf(w)].status.status
             batch == BatchOf(w) IN
           /\ (written = ImageCacheActioneNoImagesPulledOrDeleted) <=> (batch = <<>>)
           /\ (written = ImageCacheActionStatusFailed) <=> AnyFailure(batch)
           /\ (written = ImageCacheActionStatusSucceeded)
                <=> (batch # <<>> /\ AllSuccess(batch))]_vars

\* one result succeeded and one failed: Failed was written
C18_Witness ==
  /\ worker[1].pc = "idle"
  /\ workqueue = NewWorkQueue
  /\ api["foo"].status.status = ImageCacheActionStatusFailed
  /\ api["foo"].status.completionTime # 0
  /\ DOMAIN api["foo"].status.failures = {"bar"}
  /\ Len(api["foo"].status.failures["bar"]) = 1

\* how many times entry e occurs in the list
Occurrences(list, e) == Cardinality({k \in 1..Len(list) : list[k] = e})

\* the failed results of the batch filed under image i
FailedFor(batch, i) ==
  {j \in 1..Len(batch) : IsFailure(batch[j]) /\ batch[j].request.image = i}

\* C19: after a StatusUpdate, status.failures holds one {node, reason,
\* message} entry for each Failed or Unknown result of the batch, under the
\* image of that result, and nothing else; a pass that enters Processing
\* writes empty failures.
C19_FailuresPerFailedResult ==
  [][\A w \in 1..Threadiness :
       /\ SyncsStatusUpdate(w) =>
            LET failures == api'[ObjOf(w)].status.failures
                batch == BatchOf(w) IN
              /\ DOMAIN failures = {i \in {"foo", "bar"} : FailedFor(batch, i) # {}}
              /\ \A i \in DOMAIN failures :
                   /\ Len(failures[i]) = Cardinality(FailedFor(batch, i))
                   /\ \A j \in FailedFor(batch, i) :
                        Occurrences(failures[i], NodeReasonMessage(batch[j]))
                          = Cardinality({k \in FailedFor(batch, i) :
                                NodeReasonMessage(batch[k]) = NodeReasonMessage(batch[j])})
       /\ (WorkerSync(w) /\ IsPassKey(worker[w].key)
             /\ api'[ObjOf(w)].status.status = ImageCacheActionStatusProcessing)
            => api'[ObjOf(w)].status.failures = <<>>]_vars

\* two failures filed under image foo
C19_Witness ==
  /\ worker[1].pc = "idle"
  /\ DOMAIN api["foo"].status.failures = {"foo"}
  /\ Len(api["foo"].status.failures["foo"]) = 2
  /\ api["foo"].status.completionTime # 0

\* C20: a StatusUpdate leaves reason and startTime as they were in the
\* object fetched before the write, and the spec as well; of the status it
\* changes only status, message, failures and completionTime.
C20_StatusUpdateFrame ==
  [][\A w \in 1..Threadiness :
       SyncsStatusUpdate(w) =>
         /\ api'[ObjOf(w)].status.reason = api[ObjOf(w)].status.reason
         /\ api'[ObjOf(w)].status.startTime = api[ObjOf(w)].status.startTime
         /\ api'[ObjOf(w)].spec = api[ObjOf(w)].spec
         /\ api'[ObjOf(w)].name = api[ObjOf(w)].name
         /\ DOMAIN api'[ObjOf(w)].status = DOMAIN api[ObjOf(w)].status]_vars

\* an Update pass was aggregated: reason and start time are those of the pass
C20_Witness ==
  /\ worker[1].pc = "idle"
  /\ api["foo"].status.status = ImageCacheActionStatusSucceeded
  /\ api["foo"].status.reason = ImageCacheReasonImageCacheUpdate
  /\ api["foo"].status.startTime = 1
  /\ api["foo"].status.completionTime = 2

(***************************************************************************)
(* The pass harness: one call of syncHandler on a Create, Update, Refresh  *)
(* or Purge key, over cacheSpecs of up to MaxEntries entries with one or   *)
(* two images and an empty or a one-label node selector, and a node lister *)
(* holding zero, one or two nodes (TestSyncHandler #3, #6, #8, #10, #11).  *)
(***************************************************************************)
ImageFoo == [name |-> "foo", forceFullCache |-> TRUE]
ImageBar == [name |-> "bar", forceFullCache |-> FALSE]
ImageFooLazy == [name |-> "foo", forceFullCache |-> FALSE]

PassImageLists ==
  { << ImageFoo >>, << ImageBar >>, << ImageFooLazy >>, << ImageFoo, ImageBar >> }

ZoneLabel == "zone=a"

PassEntries ==
  { [images |-> il, nodeSelector |-> sel] :
      il \in PassImageLists, sel \in {{}, {ZoneLabel}} }

PassSpecs == UNION {[1..k -> PassEntries] : k \in 1..MaxEntries}

NodeBaz == [name |-> "baz", labels |-> {ZoneLabel}]

PassNodeLists == { <<>>, NodeList, NodeList \o << NodeBaz >> }

PassStatuses ==
  { StatusOf(ImageCacheActionStatusSucceeded, ImageCacheReasonImageCacheCreate, 1, 1),
    FailedWith([foo |-> << [node |-> "bar", reason |-> "", message |-> ""] >>]) }

\* the keys a worker can hold for the persisted object: the old object of an Update
\* key has at least as many cacheSpec entries as the new one
PassKeys(imageCache) ==
  { WorkQueueKey(wt, imageCache.name, Nil, Nil) :
      wt \in {ImageCacheCreate, ImageCacheUpdate, ImageCacheRefresh, ImageCachePurge} }
  \cup { WorkQueueKey(ImageCacheUpdate, imageCache.name, Nil,
                      NewImageCache(imageCache.name, old, {}, imageCache.status)) :
           old \in {sp \in PassSpecs : Len(sp) >= Len(imageCache.spec)} }

PassInit ==
  /\ api \in [ImageCacheNames ->
               {NewImageCache("foo", sp, {}, st) : sp \in PassSpecs, st \in PassStatuses}]
  /\ lister = api
  /\ watch = <<>>
  /\ \E key \in PassKeys(api["foo"]) :
       /\ workqueue = Get(AddRateLimited(NewWorkQueue, key), key)
       /\ worker = [w \in 1..Threadiness |->
                      IF w = 1 THEN [pc |-> "sync", key |-> key]
                      ELSE [pc |-> "idle", key |-> Nil]]
  /\ imageworkqueue = <<>>
  /\ manager = [results |-> <<>>, passes |-> 0]
  /\ budget = [edits |-> 0, fails |-> MaxFail, ticks |-> 0, nodes |-> 0]
  /\ clock = 1
  /\ phase = "running"
  /\ call = NoCall
  /\ owed = {}
  /\ dropped = {}
  /\ jobs = <<>>
  /\ nodesCache = {}
  /\ fanout = <<>>
  /\ nodesLister \in PassNodeLists
  /\ recorder = <<>>

PassNext == \E w \in 1..Threadiness : WorkerSync(w)

SpecPass == PassInit /\ [][PassNext]_vars

\* worker w runs syncHandler on a pass key, the lister knows the object and no
\* cluster call fails
SyncsPass(w) ==
  /\ WorkerSync(w)
  /\ IsPassKey(worker[w].key)
  /\ lister[worker[w].key.objKey] # Nil
  /\ budget' = budget

\* the requests worker w's call of syncHandler hands to AddRateLimited, in call
\* order, when no cluster call fails
Calls(w) ==
  syncHandler(worker[w].key, lister[ObjOf(w)], api[ObjOf(w)], clock', "none",
              <<>>).requests

\* what the step has added to the image work queue, in the order of arrival
Added ==
  SubSeq(imageworkqueue', Len(imageworkqueue) + 1, Len(imageworkqueue'))

\* node is selected by the cacheSpec entry
Selects(entry, node) == entry.nodeSelector \subseteq node.labels

ListedNodes == {nodesLister[j] : j \in 1..Len(nodesLister)}

PassImages == {ImageFoo, ImageBar, ImageFooLazy}

\* how many of the requests are for this work type, node and image
RequestsFor(requests, workType, node, image) ==
  Cardinality({j \in 1..Len(requests) :
     /\ requests[j].workType = workType
     /\ requests[j].node = node
     /\ requests[j].image = image.name
     /\ requests[j].forceFullCache = image.forceFullCache})

\* the positions (entry, image) of cacheSpec at which node is to get image
PullsOf(cacheSpec, node, image) ==
  {ij \in (1..Len(cacheSpec)) \X (1..2) :
     /\ ij[2] <= Len(cacheSpec[ij[1]].images)
     /\ Selects(cacheSpec[ij[1]], node)
     /\ cacheSpec[ij[1]].images[ij[2]] = image}

\* the positions (entry, image) of the old cacheSpec whose image the new entry of
\* that index has no more, node being selected by the new entry
PurgesOf(oldSpec, newSpec, node, image) ==
  {ij \in (1..Len(newSpec)) \X (1..2) :
     /\ ij[2] <= Len(oldSpec[ij[1]].images)
     /\ Selects(newSpec[ij[1]], node)
     /\ oldSpec[ij[1]].images[ij[2]] = image
     /\ \A j \in 1..Len(newSpec[ij[1]].images) : newSpec[ij[1]].images[j] # image}

\* C23: in an Update pass, for every cacheSpec index i, every node selected
\* by the new entry i and every image of the old entry i that the new entry
\* has no more, one Purge request for that node and image is enqueued, and
\* no Purge request is enqueued otherwise.
C23_UpdateDiffPurges ==
  [][\A w \in 1..Threadiness :
       (SyncsPass(w) /\ worker[w].key.workType = ImageCacheUpdate
          /\ worker[w].key.oldImageCache # Nil) =>
         \A node \in ListedNodes, image \in PassImages :
           RequestsFor(Added, ImageCachePurge, node, image)
             = Cardinality(PurgesOf(worker[w].key.oldImageCache.spec,
                                    lister[ObjOf(w)].spec, node, image))]_vars

\* an Update pass has asked for a pull of foo and a purge of bar on node bar
C23_Witness ==
  /\ Len(imageworkqueue) = 3
  /\ imageworkqueue[1].workType = ImageCacheUpdate
  /\ imageworkqueue[1].image = "foo"
  /\ imageworkqueue[2].workType = ImageCachePurge
  /\ imageworkqueue[2].image = "bar"
  /\ imageworkqueue[2].node = imageworkqueue[1].node
  /\ IsSentinel(imageworkqueue[3])

\* C24: for a Create, Refresh or Purge key, a call of syncHandler in which
\* no cluster call fails persists the Processing status and enqueues one
\* request with the key's work type for each cacheSpec entry, each node
\* the entry selects and each image of the entry, nothing else, and then
\* the sentinel; with no node selected the sentinel alone.
C24_RequestPerEntryNodeImage ==
  [][\A w \in 1..Threadiness :
       (SyncsPass(w) /\ worker[w].key.workType \in
          {ImageCacheCreate, ImageCacheRefresh, ImageCachePurge}) =>
         LET workType == worker[w].key.workType
             cacheSpec == lister[ObjOf(w)].spec
             calls == Calls(w) IN
           /\ api'[ObjOf(w)].status.status = ImageCacheActionStatusProcessing
           /\ Added = Arrival(calls)
           /\ calls # <<>>
           /\ calls[Len(calls)] = Sentinel(workType, ObjOf(w))
           /\ \A j \in 1..(Len(calls) - 1) :
                /\ ~IsSentinel(calls[j])
                /\ calls[j].workType = workType
                /\ calls[j].imagecache = ObjOf(w)
                /\ calls[j].node \in ListedNodes
           /\ \A node \in ListedNodes, image \in PassImages :
                /\ RequestsFor(calls, workType, node, image)
                     = Cardinality(PullsOf(cacheSpec, node, image))
                /\ RequestsFor(Added, workType, node, image)
                     = Cardinality(PullsOf(cacheSpec, node, image))
           /\ ((\A k \in 1..Len(cacheSpec), node \in ListedNodes :
                  ~Selects(cacheSpec[k], node)) => Added = calls /\ Len(calls) = 1)]_vars

\* a Refresh pass over two nodes, the second entry selecting only one of them
C24_Witness ==
  /\ Len(nodesLister) = 2
  /\ Len(imageworkqueue) = 4
  /\ \A j \in 1..3 : /\ imageworkqueue[j].workType = ImageCacheRefresh
                      /\ ~IsSentinel(imageworkqueue[j])
  /\ imageworkqueue[1].node.name = "bar"
  /\ imageworkqueue[2].node.name = "baz"
  /\ imageworkqueue[3].node.name = "baz"
  /\ imageworkqueue[3].image = "bar"
  /\ IsSentinel(imageworkqueue[4])

(***************************************************************************)
(* Errors of syncHandler.                                                  *)
(***************************************************************************)
\* worker w runs syncHandler and a cluster call fails in it
SyncsWithFault(w) == WorkerSync(w) /\ budget' # budget

\* C27: whenever syncHandler returns an error caused by a failing list,
\* get or update call, the persisted status of the ImageCache is the same
\* as before the call.
C27_ErrorLeavesStatus ==
  [][\A w \in 1..Threadiness :
       SyncsWithFault(w) => api'[ObjOf(w)].status = api[ObjOf(w)].status]_vars

\* C28: if persisting the Processing status fails for a Create, Update,
\* Refresh or Purge key, syncHandler returns the error and has enqueued no
\* request and no sentinel.
C28_FailedPersistEnqueuesNothing ==
  [][\A w \in 1..Threadiness :
       (SyncsWithFault(w) /\ IsPassKey(worker[w].key)
          /\ lister[ObjOf(w)] # Nil
          /\ api'[ObjOf(w)].status.status # ImageCacheActionStatusProcessing) =>
         /\ Added = <<>>
         /\ api' = api
         /\ syncHandler(worker[w].key, lister[ObjOf(w)], api[ObjOf(w)], clock',
                        "early", <<>>).err]_vars

\* the update of a Refresh pass failed: status as before, nothing dispatched
C28_Witness ==
  /\ worker[1].pc = "idle"
  /\ KeysOf(workqueue) = {}
  /\ budget.fails < MaxFail
  /\ api["foo"].status.status = ImageCacheActionStatusSucceeded
  /\ imageworkqueue = <<>>
  /\ Len(nodesLister) = 2

\* C29: for an Update key whose oldImageCache is nil, syncHandler persists
\* status Failed with reason OldImageCacheNotFound, returns an error, and
\* enqueues no request and no sentinel.
C29_OldImageCacheNotFound ==
  [][\A w \in 1..Threadiness :
       (SyncsPass(w) /\ worker[w].key.workType = ImageCacheUpdate
          /\ worker[w].key.oldImageCache = Nil) =>
         /\ api'[ObjOf(w)].status.status = ImageCacheActionStatusFailed
         /\ api'[ObjOf(w)].status.reason = ImageCacheReasonOldImageCacheNotFound
         /\ api'[ObjOf(w)].status.message = ImageCacheMessageOldImageCacheNotFound
         /\ api'[ObjOf(w)].spec = api[ObjOf(w)].spec
         /\ Added = <<>>
         /\ syncHandler(worker[w].key, lister[ObjOf(w)], api[ObjOf(w)], clock',
                        "none", <<>>).err]_vars

\* the Update key without old object was processed
C29_Witness ==
  /\ worker[1].pc = "idle"
  /\ api["foo"].status.reason = ImageCacheReasonOldImageCacheNotFound
  /\ api["foo"].status.completionTime # 0
  /\ imageworkqueue = <<>>
  /\ budget.fails = MaxFail

(***************************************************************************)
(* The sentinel and the rate limiter.                                      *)
(***************************************************************************)
\* C22: the sentinel of a pass is enqueued exactly once and after every
\* request of the pass, and it reaches the consumer of the image work
\* queue after all of them.
C22_SentinelArrivesLast ==
  [][\A w \in 1..Threadiness :
       (SyncsPass(w) /\ Added # <<>>) =>
         LET calls == Calls(w) IN
           /\ Cardinality({j \in 1..Len(calls) : IsSentinel(calls[j])}) = 1
           /\ IsSentinel(calls[Len(calls)])
           /\ Cardinality({j \in 1..Len(Added) : IsSentinel(Added[j])}) = 1
           /\ IsSentinel(Added[Len(Added)])]_vars

(***************************************************************************)
(* The batch harness: the controller at work on ImageCache foo, at rest    *)
(* with a Refresh key and a Purge key on the work queue, together with the *)
(* image work manager.  The cacheSpec has one entry, two entries with      *)
(* different images, or two entries with the same image.                   *)
(***************************************************************************)
EntryOf(image) == [images |-> << image >>, nodeSelector |-> {}]

BatchSpecs ==
  { << EntryOf(ImageFoo) >>,
    << EntryOf(ImageFoo), EntryOf(ImageBar) >>,
    << EntryOf(ImageFoo), EntryOf(ImageFoo) >> }

BatchInit ==
  /\ api \in [ImageCacheNames ->
               {NewImageCache("foo", sp, {imageCachePurgeAnnotationKey},
                              StatusOf(ImageCacheActionStatusSucceeded,
                                       ImageCacheReasonImageCacheCreate, 1, 1)) :
                  sp \in BatchSpecs}]
  /\ lister = api
  /\ watch = <<>>
  /\ workqueue = AddRateLimited(
                   AddRateLimited(NewWorkQueue,
                                  WorkQueueKey(ImageCacheRefresh, "foo", Nil, Nil)),
                   WorkQueueKey(ImageCachePurge, "foo", Nil, Nil))
  /\ imageworkqueue = <<>>
  /\ worker = [w \in 1..Threadiness |-> [pc |-> "idle", key |-> Nil]]
  /\ manager = [results |-> <<>>, passes |-> 0]
  /\ budget = [edits |-> 0, fails |-> MaxFail, ticks |-> 0, nodes |-> 0]
  /\ clock = 1
  /\ phase = "running"
  /\ call = NoCall
  /\ owed = {"foo"}
  /\ dropped = {}
  /\ jobs = <<>>
  /\ nodesCache = {}
  /\ fanout = <<>>
  /\ nodesLister = NodeList
  /\ recorder = <<>>

\* the add of a delayed item finds an equal item still queued: the queue keeps one
ManagerCoalesce ==
  /\ phase = "running"
  /\ \E p \in 2..Len(imageworkqueue) :
       /\ \E q \in 1..(p - 1) : imageworkqueue[q] = imageworkqueue[p]
       /\ imageworkqueue' = SubSeq(imageworkqueue, 1, p - 1)
                            \o SubSeq(imageworkqueue, p + 1, Len(imageworkqueue))
  /\ UNCHANGED << api, lister, watch, workqueue, worker, manager, budget, clock,
                  phase, call, owed, dropped, jobs, nodesCache, fanout,
                  nodesLister, recorder >>

BatchNext ==
  \/ \E w \in 1..Threadiness : WorkerGet(w)
  \/ \E w \in 1..Threadiness : WorkerSync(w)
  \/ ManagerJob
  \/ ManagerStatusUpdate
  \/ ManagerCoalesce

SpecBatch == BatchInit /\ [][BatchNext]_vars

\* the number of requests the pass of this sentinel handed to AddRateLimited
\* before it
RequestsOfPass(sentinel) ==
  Len(Requests(WorkQueueKey(sentinel.workType, sentinel.imagecache, Nil, Nil),
               lister[sentinel.imagecache].spec)) - 1

\* C21: every pass in which syncHandler enqueues requests enqueues its
\* sentinel, so that one StatusUpdate key is emitted for it, and the
\* StatusUpdate key emitted at the sentinel of a pass carries as many
\* results as the pass enqueued requests.
C21_BatchComplete ==
  [][/\ \A w \in 1..Threadiness :
          (WorkerSync(w) /\ IsPassKey(worker[w].key) /\ Added # <<>>) =>
            Cardinality({j \in 1..Len(Added) : IsSentinel(Added[j])}) = 1
     /\ ManagerStatusUpdate =>
          Len(manager.results) = RequestsOfPass(Head(imageworkqueue))]_vars

(***************************************************************************)
(* Workers and keys.                                                       *)
(***************************************************************************)
\* C25: no two workers execute syncHandler at the same time for two keys
\* with the same objKey.
C25_OneKeyPerImageCache ==
  \A v, w \in 1..Threadiness :
    (v # w /\ worker[v].pc = "sync" /\ worker[w].pc = "sync") =>
      worker[v].key.objKey # worker[w].key.objKey

\* C26: when syncHandler returns an error the key is enqueued again
\* through the rate limiter.
C26_FailedKeyRetried ==
  [][\A w \in 1..Threadiness :
       SyncsWithFault(w) => worker[w].key \in workqueue'.dirty]_vars

(***************************************************************************)
(* The harness of processNextWorkItem: the work queue holds an item that   *)
(* is not a WorkQueueKey (the struct{}{} of TestProcessNextWorkItem #3)    *)
(* next to one key, and both workers run.                                  *)
(***************************************************************************)
Unexpected == [unexpected |-> TRUE]

\* (variant: the item is forgotten and stays in process)
SkipItemNotDone(wq, item) == Forget(wq, item)

\* processNextWorkItem for an item of unexpected type: Forget, then the
\* deferred Done
SkipItem(wq, item) == Done(Forget(wq, item), item)

WorkerSkip(w) ==
  /\ phase = "running"
  /\ worker[w].pc = "sync"
  /\ ~IsWorkQueueKey(worker[w].key)
  /\ workqueue' = SkipItem(workqueue, worker[w].key)
  /\ worker' = [worker EXCEPT ![w] = [pc |-> "idle", key |-> Nil]]
  /\ UNCHANGED << api, lister, watch, imageworkqueue, manager, budget, clock,
                  phase, call, owed, dropped, jobs, nodesCache, fanout,
                  nodesLister, recorder >>

ProcKeys ==
  { WorkQueueKey(ImageCacheStatusUpdate, "foo", [pass |-> 1, results |-> b], Nil) :
      b \in {b \in Batches : Len(b) = 1} }
  \cup { WorkQueueKey(wt, "foo", Nil, Nil) :
           wt \in {ImageCacheCreate, ImageCacheUpdate, ImageCacheRefresh,
                   ImageCachePurge} }

ProcInit ==
  /\ api \in [ImageCacheNames ->
               {NewImageCache("foo", SpecFoo, a, st) :
                  a \in {{}, AnnotationKeys}, st \in SyncStatuses}]
  /\ lister = api
  /\ watch = <<>>
  /\ \E key \in ProcKeys :
       workqueue \in {Add(AddRateLimited(NewWorkQueue, key), Unexpected),
                      AddRateLimited(AddRateLimited(NewWorkQueue, key), Unexpected)}
  /\ worker = [w \in 1..Threadiness |-> [pc |-> "idle", key |-> Nil]]
  /\ imageworkqueue = <<>>
  /\ manager = [results |-> <<>>, passes |-> 1]
  /\ budget = [edits |-> 0, fails |-> MaxFail, ticks |-> 0, nodes |-> 0]
  /\ clock = 1
  /\ phase = "running"
  /\ call = NoCall
  /\ owed = {}
  /\ dropped = {}
  /\ jobs = <<>>
  /\ nodesCache = {}
  /\ fanout = <<>>
  /\ nodesLister = NodeList
  /\ recorder = <<>>

ProcNext ==
  \/ \E w \in 1..Threadiness : WorkerGet(w)
  \/ \E w \in 1..Threadiness : WorkerSync(w)
  \/ \E w \in 1..Threadiness : WorkerSkip(w)

SpecProc == ProcInit /\ [][ProcNext]_vars

\* worker w returns from processNextWorkItem
Returns(w) == worker[w].pc = "sync" /\ worker'[w].pc = "idle"

\* C30: an item of unexpected type taken off the work queue is forgotten
\* and marked Done without a call of syncHandler, and the worker goes on
\* with the next item; every item obtained by Get is in process until the
\* worker that holds it returns, and is marked Done then, whether
\* syncHandler succeeds, fails or is skipped.
C30_UnexpectedItemSkipped ==
  [][/\ \A w \in 1..Threadiness :
          /\ worker[w].pc = "sync" => worker[w].key \in workqueue.processing
          /\ Returns(w) => worker[w].key \notin workqueue'.processing
          /\ (Returns(w) /\ ~IsWorkQueueKey(worker[w].key)) =>
               /\ worker[w].key \notin workqueue'.requeues
               /\ UNCHANGED << api, watch, imageworkqueue, budget, clock, phase >>
               /\ worker'[w].key = Nil
     /\ \A item \in workqueue.processing \ workqueue'.processing :
          Cardinality({w \in 1..Threadiness :
                         worker[w].key = item /\ Returns(w)}) = 1]_vars

\* the unexpected item was skipped and a worker has gone on to the key
C30_Witness ==
  /\ Unexpected \notin KeysOf(workqueue)
  /\ Unexpected \notin workqueue.requeues
  /\ \E w \in 1..Threadiness :
       worker[w].pc = "sync" /\ IsWorkQueueKey(worker[w].key)
  /\ \A w \in 1..Threadiness : worker[w].key # Unexpected
  /\ api = lister

(***************************************************************************)
(* Events.                                                                 *)
(***************************************************************************)
\* C31: a StatusUpdate processed without error emits exactly one event for
\* the ImageCache, Normal when the aggregated status is Succeeded or
\* NoImagesPulledOrDeleted and Warning when it is Failed, with the reason of
\* the ImageCache's status; a StatusUpdate that returns an error emits none.
C31_OneEventPerStatusUpdate ==
  [][\A w \in 1..Threadiness :
       (WorkerSync(w) /\ worker[w].key.workType = ImageCacheStatusUpdate) =>
         IF budget' # budget THEN recorder' = <<>>
         ELSE LET status == api'[ObjOf(w)].status IN
                /\ Len(recorder') = 1
                /\ recorder'[1].object = ObjOf(w)
                /\ recorder'[1].reason = status.reason
                /\ recorder'[1].message = status.message
                /\ status.status \in {ImageCacheActionStatusSucceeded,
                                      ImageCacheActioneNoImagesPulledOrDeleted}
                     => recorder'[1].type = EventTypeNormal
                /\ status.status = ImageCacheActionStatusFailed
                     => recorder'[1].type = EventTypeWarning
                /\ status.status \in TerminalWritten]_vars

\* a Warning event for a failed aggregation whose annotation was removed
C31_Witness ==
  /\ Len(recorder) = 1
  /\ recorder[1].type = EventTypeWarning
  /\ recorder[1].reason = ImageCacheReasonImageCachePurge
  /\ api["foo"].status.status = ImageCacheActionStatusFailed
  /\ api["foo"].annotations = {imageCacheRefreshAnnotationKey}
  /\ worker[1].pc = "idle"

(***************************************************************************)
(* The latch harness: the node informer delivers up to LatchEvents events  *)
(* for node bar while the ImageCache informer is still delivering the      *)
(* ImageCaches it has not listed yet, so that the lister changes between   *)
(* a node event and its fan-out.                                           *)
(***************************************************************************)
LatchStatuses ==
  { StatusOf(ImageCacheActionStatusSucceeded, ImageCacheReasonImageCacheCreate, 1, 1),
    StatusOf(ImageCacheActionStatusProcessing, ImageCacheReasonImageCacheCreate, 1, 0) }

LatchInit ==
  /\ api \in [RefreshNames -> {NewImageCache(n, SpecFoo, {}, st) :
                                 n \in RefreshNames, st \in LatchStatuses}]
  /\ \A n \in RefreshNames : api[n].name = n
  /\ \E listed \in SUBSET RefreshNames :
       /\ lister = [n \in RefreshNames |-> IF n \in listed THEN api[n] ELSE Nil]
       /\ LET late == SeqOf(RefreshNames \ listed) IN
            watch = [j \in 1..Len(late) |-> AddEvent(api[late[j]])]
  /\ workqueue = NewWorkQueue
  /\ imageworkqueue = <<>>
  /\ worker = [w \in 1..Threadiness |-> [pc |-> "idle", key |-> Nil]]
  /\ manager = [results |-> <<>>, passes |-> 0]
  /\ budget = [edits |-> 0, fails |-> 0, ticks |-> 0, nodes |-> LatchEvents]
  /\ clock = 1
  /\ phase = "running"
  /\ call = NoCall
  /\ owed = {}
  /\ dropped = {}
  /\ jobs = <<>>
  /\ nodesCache = {}
  /\ fanout = <<>>
  /\ nodesLister = NodeList
  /\ recorder = <<>>

LatchNext ==
  \/ NodeEvent
  \/ NodeFanout
  \/ InformerDeliver

SpecLatch == LatchInit /\ [][LatchNext]_vars

\* a Node add or update event for a node that is Ready and not in nodesCache
Latches(node, operation) ==
  /\ operation # "delete"
  /\ IsNodeReady(node.conditions)
  /\ node.name \notin nodesCache

RefreshKeysOf(ics) == {RefreshKey(ics[j].name) : j \in 1..Len(ics)}

\* C32: an event for a Ready node that is not in nodesCache records the
\* node and starts one fan-out over the ImageCaches listed at that moment,
\* which later enqueues one Refresh key for each of them and ends; any other
\* add or update event starts no fan-out and enqueues nothing; a delete
\* event removes the node from nodesCache, so that the next Ready event
\* latches again.
C32_NodeReadyLatch ==
  [][/\ \A node \in Nodes, operation \in {"add", "update", "delete"} :
          enqueueNode(node, operation) =>
            /\ workqueue' = workqueue
            /\ IF Latches(node, operation)
               THEN /\ nodesCache' = nodesCache \cup {node.name}
                    /\ fanout' = Append(fanout, Listed)
               ELSE fanout' = fanout
            /\ operation = "delete" => nodesCache' = nodesCache \ {node.name}
     /\ NodeFanout =>
          \E i \in 1..Len(fanout) :
            /\ fanout' = SubSeq(fanout, 1, i - 1) \o SubSeq(fanout, i + 1, Len(fanout))
            /\ workqueue'.dirty = workqueue.dirty \cup RefreshKeysOf(fanout[i])
            /\ workqueue'.processing = workqueue.processing
     /\ InformerDeliver => fanout' = fanout]_vars

\* bar became Ready, was deleted and became Ready again: the first fan-out
\* has enqueued the one ImageCache listed then, the second is waiting with
\* both
C32_Witness ==
  /\ budget.nodes = 0
  /\ nodesCache = {"bar"}
  /\ Len(fanout) = 1
  /\ Len(fanout[1]) = 2
  /\ workqueue.dirty = {RefreshKey("foo")}

\* C33: after any Node event, the node's name is in nodesCache if and only
\* if the event was an add or update in which the node was Ready.
C33_NodesCacheIsReadySet ==
  [][\A node \in Nodes, operation \in {"add", "update", "delete"} :
       enqueueNode(node, operation) =>
         (node.name \in nodesCache'
            <=> (operation # "delete" /\ IsNodeReady(node.conditions)))]_vars

(***************************************************************************)
(* The shutdown harness: two keys are on the work queue when the workers   *)
(* start; stopCh may be closed at any moment, upon which Run returns and   *)
(* its deferred calls shut the queues down.                                *)
(***************************************************************************)
\* (variant: Get reports the shutdown while it still holds items)
GetReportsShutdownEarly(wq) == wq.shuttingDown

\* workqueue.Get returns shutdown = true: nothing to hand out and shutting down
GetReportsShutdown(wq) == wq.shuttingDown /\ Available(wq) = {}

\* Run after <-stopCh: the deferred ShutDown of the work queue
Shutdown ==
  /\ phase = "running"
  /\ ~workqueue.shuttingDown
  /\ workqueue' = ShutDown(workqueue)
  /\ UNCHANGED << api, lister, watch, imageworkqueue, worker, manager, budget,
                  clock, phase, call, owed, dropped, jobs, nodesCache, fanout,
                  nodesLister, recorder >>

\* processNextWorkItem returns false and runWorker's loop ends
WorkerExit(w) ==
  /\ phase = "running"
  /\ worker[w].pc = "idle"
  /\ GetReportsShutdown(workqueue)
  /\ worker' = [worker EXCEPT ![w] = [pc |-> "exited", key |-> Nil]]
  /\ UNCHANGED << api, lister, watch, workqueue, imageworkqueue, manager,
                  budget, clock, phase, call, owed, dropped, jobs, nodesCache,
                  fanout, nodesLister, recorder >>

StopInit ==
  /\ api \in [ImageCacheNames ->
               {NewImageCache("foo", SpecFoo, AnnotationKeys, st) :
                  st \in {t \in SyncStatuses :
                            t.reason # ImageCacheReasonImageCacheUpdate}}]
  /\ lister = api
  /\ watch = <<>>
  /\ \E k1, k2 \in ProcKeys :
       /\ IsPassKey(k1) /\ k1.workType # ImageCacheUpdate
       /\ ~IsPassKey(k2)
       /\ workqueue = AddRateLimited(AddRateLimited(NewWorkQueue, k1), k2)
  /\ worker = [w \in 1..Threadiness |-> [pc |-> "idle", key |-> Nil]]
  /\ imageworkqueue = <<>>
  /\ manager = [results |-> <<>>, passes |-> 1]
  /\ budget = [edits |-> 0, fails |-> MaxFail, ticks |-> 0, nodes |-> 0]
  /\ clock = 1
  /\ phase = "running"
  /\ call = NoCall
  /\ owed = {}
  /\ dropped = {}
  /\ jobs = <<>>
  /\ nodesCache = {}
  /\ fanout = <<>>
  /\ nodesLister = NodeList
  /\ recorder = <<>>

StopNext ==
  \/ \E w \in 1..Threadiness : WorkerGet(w)
  \/ \E w \in 1..Threadiness : WorkerSync(w)
  \/ \E w \in 1..Threadiness : WorkerExit(w)
  \/ Shutdown

SpecStop == StopInit /\ [][StopNext]_vars

HostnameLabel == "kubernetes.io/hostname"
KindImageCache == "ImageCache"
GroupVersion == "kubefledged.io/v1alpha2"

\* metav1.NewControllerRef(owner, gvk)
NewControllerRef(owner, apiVersion, kind) ==
  [apiVersion |-> apiVersion, kind |-> kind, name |-> owner.name,
   uid |-> owner.uid, blockOwnerDeletion |-> TRUE, controller |-> TRUE]

\* (variant: the pod may run on any node)
PinnedToAny(hostname) == [k \in {} |-> hostname]

\* the NodeSelector of the pod template
PinnedTo(hostname) == [k \in {HostnameLabel} |-> hostname]

JobOf(imagecache, hostname, labels, initContainers, containers, volumes) ==
  [generateName |-> << imagecache.name, "-" >>,
   namespace |-> imagecache.namespace,
   ownerReferences |-> << NewControllerRef(imagecache, GroupVersion, KindImageCache) >>,
   labels |-> labels,
   backoffLimit |-> 0,
   activeDeadlineSeconds |-> 3600,
   template |->
     [namespace |-> imagecache.namespace,
      labels |-> labels,
      nodeSelector |-> PinnedTo(hostname),
      initContainers |-> initContainers,
      containers |-> containers,
      volumes |-> volumes,
      restartPolicy |-> "Never",
      imagePullSecrets |-> imagecache.imagePullSecrets,
      tolerations |-> << [operator |-> "Exists"] >>]]

commonJob(imagecache, image, pullPolicy, hostname, labels, busyboxImage) ==
  JobOf(imagecache, hostname, labels,
        << [name |-> "busybox", image |-> busyboxImage,
            command |-> << "cp", "/bin/echo", "/tmp/bin" >>,
            volumeMounts |-> << "tmp-bin" >>,
            imagePullPolicy |-> "IfNotPresent"] >>,
        << [name |-> "imagepuller", image |-> image,
            command |-> << "/tmp/bin/echo", "Image pulled successfully!" >>,
            volumeMounts |-> << "tmp-bin" >>,
            imagePullPolicy |-> pullPolicy] >>,
        << "tmp-bin" >>)

dirCacheJob(imagecache, image, pullPolicy, hostname, labels, cacheDir) ==
  JobOf(imagecache, hostname, labels,
        <<>>,
        << [name |-> "imagepuller", image |-> image,
            command |-> << "bash", "-c", << "find", cacheDir >> >>,
            volumeMounts |-> <<>>,
            imagePullPolicy |-> pullPolicy] >>,
        <<>>)

fullCacheJob(imagecache, image, pullPolicy, hostname, labels) ==
  dirCacheJob(imagecache, image, pullPolicy, hostname, labels, << "/" >>)

Builders == {"commonJob", "dirCacheJob", "fullCacheJob"}

JobImageCaches ==
  { [name |-> n, namespace |-> ns, uid |-> u, imagePullSecrets |-> s] :
      n \in {"foo", "bar"}, ns \in {"kube-fledged", "default"},
      u \in {"uid-1", "uid-2"}, s \in {<<>>, << "regcred" >>} }

JobHostnames == {"bar", "baz"}
JobLabels == { [k \in {} |-> ""], [k \in {"app"} |-> "kubefledged"] }
PullPolicies == {"IfNotPresent", "Always"}
CacheDirs == { << "/usr" >>, << "/usr", "/opt" >> }

Built(builder, imagecache, image, pullPolicy, hostname, labels, cacheDir) ==
  CASE builder = "commonJob" ->
         commonJob(imagecache, image, pullPolicy, hostname, labels, "busybox:1.29")
    [] builder = "dirCacheJob" ->
         dirCacheJob(imagecache, image, pullPolicy, hostname, labels, cacheDir)
    [] builder = "fullCacheJob" ->
         fullCacheJob(imagecache, image, pullPolicy, hostname, labels)

JobInit ==
  /\ api = [n \in ImageCacheNames |-> NewImageCache(n, SpecFoo, {}, EmptyStatus)]
  /\ lister = api
  /\ watch = <<>>
  /\ workqueue = NewWorkQueue
  /\ imageworkqueue = <<>>
  /\ worker = [w \in 1..Threadiness |-> [pc |-> "idle", key |-> Nil]]
  /\ manager = [results |-> <<>>, passes |-> 0]
  /\ budget = [edits |-> 0, fails |-> 0, ticks |-> 0, nodes |-> 0]
  /\ clock = 1
  /\ phase = "harness"
  /\ call = NoCall
  /\ owed = {}
  /\ dropped = {}
  /\ jobs = <<>>
  /\ nodesCache = {}
  /\ fanout = <<>>
  /\ nodesLister = NodeList
  /\ recorder = <<>>

\* one call of a builder: call keeps the arguments, jobs the Job returned
BuildJob ==
  /\ phase = "harness"
  /\ jobs = <<>>
  /\ \E builder \in Builders, imagecache \in JobImageCaches,
        pullPolicy \in PullPolicies, hostname \in JobHostnames,
        labels \in JobLabels, cacheDir \in CacheDirs :
       /\ call' = [builder |-> builder, imagecache |-> imagecache,
                   hostname |-> hostname, by |-> "builder"]
       /\ jobs' = << Built(builder, imagecache, "foo", pullPolicy, hostname,
                           labels, cacheDir) >>
  /\ UNCHANGED << api, lister, watch, workqueue, imageworkqueue, worker, manager,
                  budget, clock, phase, owed, dropped, nodesCache, fanout,
                  nodesLister, recorder >>

JobNext == BuildJob

SpecJob == JobInit /\ [][JobNext]_vars

\* C35: every Job a builder returns carries exactly one owner reference, a
\* controller reference to the ImageCache it was given, is in that
\* ImageCache's namespace, and is pinned through the kubernetes.io/hostname
\* node selector to exactly the hostname it was given.
C35_JobOwnedAndPinned ==
  call.by = "builder" =>
    LET job == jobs[1]
        owner == job.ownerReferences[1] IN
      /\ Len(job.ownerReferences) = 1
      /\ owner.controller
      /\ owner.kind = KindImageCache
      /\ owner.name = call.imagecache.name
      /\ owner.uid = call.imagecache.uid
      /\ job.namespace = call.imagecache.namespace
      /\ job.template.namespace = call.imagecache.namespace
      /\ DOMAIN job.template.nodeSelector = {HostnameLabel}
      /\ job.template.nodeSelector[HostnameLabel] = call.hostname

\* a full-cache job for ImageCache bar of namespace default on node baz
C35_Witness ==
  /\ call.by = "builder"
  /\ call.builder = "fullCacheJob"
  /\ call.imagecache.name = "bar"
  /\ call.imagecache.namespace = "default"
  /\ call.hostname = "baz"
  /\ jobs[1].template.containers[1].command[3][2] = << "/" >>
  /\ jobs[1].template.nodeSelector[HostnameLabel] = "baz"

(***************************************************************************)
(* Passes in flight.                                                       *)
(***************************************************************************)
\* C36: while the persisted status of an ImageCache is Processing,
\* syncHandler starts no other pass for it: it does not write Processing
\* again and adds nothing to the image work queue.
C36_OnePassInFlight ==
  [][\A w \in 1..Threadiness :
       (WorkerSync(w) /\ IsPassKey(worker[w].key)
          /\ api[ObjOf(w)].status.status = ImageCacheActionStatusProcessing) =>
         /\ api'[ObjOf(w)].status = api[ObjOf(w)].status
         /\ imageworkqueue' = imageworkqueue]_vars

(***************************************************************************)
(* The requests of an Update pass.                                         *)
(***************************************************************************)
\* C37: in one Update pass no node gets both a pull request (work type
\* Update) and a Purge request for the same image name.
C37_NoPullAndPurgeOfOneImage ==
  [][\A w \in 1..Threadiness :
       (SyncsPass(w) /\ worker[w].key.workType = ImageCacheUpdate
          /\ worker[w].key.oldImageCache # Nil) =>
         LET calls == Calls(w) IN
           \A i, j \in 1..Len(calls) :
             ~(/\ ~IsSentinel(calls[i])
               /\ calls[i].workType = ImageCacheUpdate
               /\ calls[j].workType = ImageCachePurge
               /\ calls[i].node = calls[j].node
               /\ calls[i].image = calls[j].image)]_vars

(***************************************************************************)
(* The stretch harness: one call of syncHandler on an Update key whose old *)
(* object has any cacheSpec of PassSpecs, shorter than the new one         *)
(* included.                                                               *)
(***************************************************************************)
StretchKeys(imageCache) ==
  { WorkQueueKey(ImageCacheUpdate, imageCache.name, Nil,
                 NewImageCache(imageCache.name, old, {}, imageCache.status)) :
      old \in PassSpecs }

StretchInit ==
  /\ api \in [ImageCacheNames ->
               {NewImageCache("foo", sp, {}, st) : sp \in PassSpecs, st \in PassStatuses}]
  /\ lister = api
  /\ watch = <<>>
  /\ \E key \in StretchKeys(api["foo"]) :
       /\ workqueue = Get(AddRateLimited(NewWorkQueue, key), key)
       /\ worker = [w \in 1..Threadiness |->
                      IF w = 1 THEN [pc |-> "sync", key |-> key]
                      ELSE [pc |-> "idle", key |-> Nil]]
  /\ imageworkqueue = <<>>
  /\ manager = [results |-> <<>>, passes |-> 0]
  /\ budget = [edits |-> 0, fails |-> 0, ticks |-> 0, nodes |-> 0]
  /\ clock = 1
  /\ phase = "running"
  /\ call = NoCall
  /\ owed = {}
  /\ dropped = {}
  /\ jobs = <<>>
  /\ nodesCache = {}
  /\ fanout = <<>>
  /\ nodesLister \in PassNodeLists
  /\ recorder = <<>>

StretchNext == \E w \in 1..Threadiness : WorkerSync(w)

SpecStretch == StretchInit /\ [][StretchNext]_vars

\* C38: syncHandler on an Update key with an old object returns normally
\* and enqueues the sentinel, whatever the lengths of the old and the new
\* cacheSpec; it does not stop after the Processing status was written.
C38_StretchedUpdateCompletes ==
  [][\A w \in 1..Threadiness :
       (SyncsPass(w) /\ worker[w].key.workType = ImageCacheUpdate
          /\ worker[w].key.oldImageCache # Nil) =>
         /\ phase' = "running"
         /\ Cardinality({j \in 1..Len(Added) : IsSentinel(Added[j])}) = 1]_vars

(***************************************************************************)
(* The order in which the results are visited.                             *)
(***************************************************************************)
\* C39: the message a StatusUpdate writes is the same for every order in
\* which the results of its batch can be visited.
C39_MessageIndependentOfOrder ==
  [][\A w \in 1..Threadiness :
       SyncsStatusUpdate(w) =>
         \A order \in Orders(Len(BatchOf(w))) :
           Aggregate(api[ObjOf(w)], InOrder(BatchOf(w), order)).message
             = api'[ObjOf(w)].status.message]_vars

(***************************************************************************)
(* The trigger annotations of an ImageCache at rest.                       *)
(***************************************************************************)
\* the status of a finished pass
Terminal(imageCache) ==
  imageCache.status.status \notin {ImageCacheActionStatusProcessing, ""}

\* C40: no trigger annotation is left stale: once nothing is queued or in
\* flight for any ImageCache and no cluster call has failed, a persisted
\* ImageCache whose status is terminal carries neither the purge-imagecache
\* nor the refresh-imagecache annotation.
C40_NoStaleTriggerAnnotation ==
  (Quiescent /\ budget.fails = MaxFail)
    => \A n \in ImageCacheNames :
         Terminal(api[n]) => api[n].annotations \cap AnnotationKeys = {}

====
